---- MODULE Spec2Model ----
(***************************************************************************)
(* Model of the ticket-triage service: the classifier adapter              *)
(* (llm/groq_client.py), the triage orchestrator                           *)
(* (app/services/triage_service.py), the markdown chunker                  *)
(* (knowledge_base/chunker.py), the vector store and the indexer           *)
(* (knowledge_base/vector_store.py, knowledge_base/indexer.py).            *)
(*                                                                         *)
(* Texts are modelled as sequences: a message is a sequence of characters  *)
(* (naturals), a classifier response is a sequence of tokens, a markdown   *)
(* text is a sequence of lines.                                            *)
(***************************************************************************)
EXTENDS Integers, Sequences, FiniteSets, TLC

VARIABLES
    \* ---- one triage request (TriageService.process_alert / quick_triage)
    pc,              \* position of the request in the pipeline
    mode,            \* "process_alert" | "quick_triage" | "none"
    alert_no,        \* number of requests started so far (webex_message_id)
    raw_message,     \* the raw alert text of the request
    llm_response,    \* what the classification capability returned
    parsed_alert,    \* ParsedAlert produced by classify_alert
    search_results,  \* list of SearchResult produced by search_runbooks
    suggestion,      \* generated text (sequence of words)
    confidence,      \* confidence label derived from the suggestion
    runbook_context, \* context block handed to the generation capability
    error,           \* exception that ended the request, "none" otherwise
    failed_at,       \* stage in which the exception was raised
    tickets,         \* committed rows of the tickets table
    \* ---- knowledge base
    collection,      \* rows of the vector store collection
    files,           \* runbook files on disk: file name -> markdown text
    kb_call,         \* the last knowledge-base call: arguments and return value
    kb_ops,          \* number of knowledge-base operations so far
    \* ---- chunker
    chunk_size,      \* MarkdownChunker.chunk_size
    chunk_overlap,   \* MarkdownChunker.chunk_overlap
    document,        \* markdown text handed to chunk_document
    chunks,          \* list of DocumentChunk returned by chunk_document
    \* ---- embedding capability (KnowledgeBaseIndexer.embedding_model)
    indexers,        \* _embedding_model of every KnowledgeBaseIndexer created
    constructions,   \* number of SentenceTransformer constructor runs
    callers,         \* threads inside the embedding_model accessor
    \* ---- request handlers and the database session of a request
    request,         \* the request being handled (the last one when idle)
    reply,           \* what the handler answered to the last finished request
    session,         \* rows added to the request's session and not committed
    actions,         \* committed rows of the ticket_actions table
    notifications,   \* Webex replies attempted (send_triage_response)
    trace            \* steps the handler of the request has taken

triageVars == <<pc, mode, alert_no, raw_message, llm_response, parsed_alert,
                search_results, suggestion, confidence, runbook_context, error, failed_at, tickets>>
kbVars == <<collection, files, kb_call, kb_ops>>
chunkVars == <<chunk_size, chunk_overlap, document, chunks>>
embedVars == <<indexers, constructions, callers>>
webVars == <<request, reply, session, actions, notifications, trace>>
vars == <<pc, mode, alert_no, raw_message, llm_response, parsed_alert,
          search_results, suggestion, confidence, runbook_context, error, failed_at, tickets,
          collection, files, kb_call, kb_ops, chunk_size, chunk_overlap, document, chunks,
          indexers, constructions, callers,
          request, reply, session, actions, notifications, trace>>

Min(a, b) == IF a <= b THEN a ELSE b

(***************************************************************************)
(* Texts of alerts                                                         *)
(***************************************************************************)

\* title truncation length (alert_text[:100], raw_message[:100])
TITLE_LIMIT == 100

\* a message of n characters; character i is the natural i
Msg(n) == [i \in 1..n |-> i]

\* raw_message[:k]
Prefix(text, k) == SubSeq(text, 1, Min(Len(text), k))

\* lengths of the raw messages tried: short, exactly the limit, beyond it
MsgSlack == 1
MsgLengths == {3, TITLE_LIMIT - 1, TITLE_LIMIT} \cup
              {TITLE_LIMIT + d : d \in 1..MsgSlack}
RawMessages == {Msg(n) : n \in MsgLengths}

\* a title written by the classifier (no prefix of any raw message)
LlmTitle == <<0, 0>>
LlmSystem == <<0>>

(***************************************************************************)
(* JSON values as returned by json.loads                                   *)
(***************************************************************************)

Absent == [t |-> "absent", s |-> "", x |-> <<>>]
JNull == [t |-> "null", s |-> "", x |-> <<>>]
JNum == [t |-> "num", s |-> "", x |-> <<>>]
JName(s) == [t |-> "str", s |-> s, x |-> <<>>]
JText(x) == [t |-> "str", s |-> "", x |-> x]

NoFields == [alert_type |-> Absent, severity |-> Absent, title |-> Absent,
             source_system |-> Absent, affected_component |-> Absent]
JObj(f) == [t |-> "obj", f |-> f]
JScalar(t) == [t |-> t, f |-> NoFields]

\* AlertType / AlertSeverity (app/models/webhook.py)
AlertTypes == {"infrastructure", "application", "monitoring", "unknown"}
AlertSeverities == {"critical", "high", "medium", "low", "info"}

\* dict.get(key, default): the default only when the key is missing
Get(obj, key, default) == IF obj.f[key].t = "absent" THEN default ELSE obj.f[key]
\* dict.get(key): None when the key is missing
GetOrNone(obj, key) == Get(obj, key, JNull)

(***************************************************************************)
(* Responses of the classification capability, as token sequences          *)
(***************************************************************************)

FenceJson == [k |-> "fence_json", j |-> JScalar("null")]   \* ```json
Fence == [k |-> "fence", j |-> JScalar("null")]            \* ```
Ws == [k |-> "ws", j |-> JScalar("null")]                  \* whitespace
Junk == [k |-> "junk", j |-> JScalar("null")]              \* text that is no JSON
Json(j) == [k |-> "json", j |-> j]                         \* the text of a JSON value

RECURSIVE LStrip(_)
LStrip(r) == IF r # <<>> /\ Head(r).k = "ws" THEN LStrip(Tail(r)) ELSE r
RECURSIVE RStrip(_)
RStrip(r) == IF r # <<>> /\ r[Len(r)].k = "ws" THEN RStrip(SubSeq(r, 1, Len(r) - 1)) ELSE r
\* str.strip()
Strip(r) == RStrip(LStrip(r))

\* groq_client.py 105-111: strip, then drop the code-fence markers
StripFences(response) ==
    LET r0 == Strip(response)
        r1 == IF r0 # <<>> /\ Head(r0).k = "fence_json" THEN Tail(r0) ELSE r0
        r2 == IF r1 # <<>> /\ Head(r1).k \in {"fence", "fence_json"}
              THEN (IF Head(r1).k = "fence" THEN Tail(r1) ELSE <<Junk>> \o Tail(r1))
              ELSE r1
        r3 == IF r2 # <<>> /\ r2[Len(r2)].k = "fence"
              THEN SubSeq(r2, 1, Len(r2) - 1) ELSE r2
    IN  Strip(r3)

\* json.loads: the text must be exactly one JSON value
JsonDecodes(text) == Len(text) = 1 /\ text[1].k = "json"
JsonLoads(text) == text[1].j

(***************************************************************************)
(* Classifier adapter                                                      *)
(***************************************************************************)

\* outcome of a call of the classification capability (GroqClient.generate)
CallFails == [raised |-> TRUE, text |-> <<>>]
Returns(text) == [raised |-> FALSE, text |-> text]

\* the default classification, cutting the title one character short
DefaultClassificationShort(alert_text) ==
    JObj([alert_type |-> JName("unknown"),
          severity |-> JName("medium"),
          title |-> JText(Prefix(alert_text, TITLE_LIMIT - 1)),
          affected_component |-> JNull,
          source_system |-> JNull])

\* groq_client.py 116-122: the default classification
DefaultClassification(alert_text) ==
    JObj([alert_type |-> JName("unknown"),
          severity |-> JName("medium"),
          title |-> JText(IF Len(alert_text) > TITLE_LIMIT
                          THEN Prefix(alert_text, TITLE_LIMIT) ELSE alert_text),
          affected_component |-> JNull,
          source_system |-> JNull])

\* classify_alert without the except clause: a decode error is raised
GroqClassifyAlertNoCatch(alert_text, call) ==
    IF call.raised
    THEN [exc |-> "APIError", value |-> JScalar("null")]
    ELSE LET text == StripFences(call.text)
         IN  IF JsonDecodes(text)
             THEN [exc |-> "none", value |-> JsonLoads(text)]
             ELSE [exc |-> "JSONDecodeError", value |-> JScalar("null")]

\* GroqClient.classify_alert: the dict returned, or the exception raised
GroqClassifyAlert(alert_text, call) ==
    IF call.raised
    THEN [exc |-> "APIError", value |-> JScalar("null")]
    ELSE LET text == StripFences(call.text)
         IN  IF JsonDecodes(text)
             THEN [exc |-> "none", value |-> JsonLoads(text)]
             ELSE [exc |-> "none", value |-> DefaultClassification(alert_text)]

\* the enum lookup, accepting any string
EnumOrAnyString(value, members, fallback) ==
    IF value.t = "str" THEN value.s ELSE fallback

\* AlertType(value) / AlertSeverity(value) inside try ... except ValueError
EnumOr(value, members, fallback) ==
    IF value.t = "str" /\ value.s \in members THEN value.s ELSE fallback

NoAlert == [raw_message |-> <<>>, alert_type |-> "unknown", severity |-> "medium",
            title |-> <<>>, description |-> <<>>,
            source_system |-> JNull, affected_component |-> JNull]

\* pydantic validation of ParsedAlert (app/models/webhook.py 53-67):
\* title: str, source_system / affected_component: Optional[str]
ParsedAlertValid(title, source_system, affected_component) ==
    /\ title.t = "str"
    /\ source_system.t \in {"str", "null"}
    /\ affected_component.t \in {"str", "null"}

\* TriageService.classify_alert: the ParsedAlert returned, or the exception raised
ClassifyAlert(raw, call) ==
    LET c == GroqClassifyAlert(raw, call)
        d == c.value
        title == Get(d, "title", JText(Prefix(raw, TITLE_LIMIT)))
        source_system == GetOrNone(d, "source_system")
        affected_component == GetOrNone(d, "affected_component")
    IN  IF c.exc # "none" THEN [exc |-> c.exc, alert |-> NoAlert]
        ELSE IF d.t # "obj" THEN [exc |-> "AttributeError", alert |-> NoAlert]
        ELSE IF ~ParsedAlertValid(title, source_system, affected_component)
             THEN [exc |-> "ValidationError", alert |-> NoAlert]
        ELSE [exc |-> "none",
              alert |-> [raw_message |-> raw,
                         alert_type |-> EnumOr(Get(d, "alert_type", JName("unknown")),
                                               AlertTypes, "unknown"),
                         severity |-> EnumOr(Get(d, "severity", JName("medium")),
                                             AlertSeverities, "medium"),
                         title |-> title.x,
                         description |-> raw,
                         source_system |-> source_system,
                         affected_component |-> affected_component]]

\* ---- what the classification capability may return
TypeValues == {Absent, JNull, JNum, JName("infrastructure"), JName("unknown"),
               JName("bogus")}
SeverityValues == {Absent, JNull, JNum, JName("critical"), JName("medium"),
                   JName("bogus")}
TitleValues == {Absent, JNull, JNum, JText(LlmTitle)}
SystemValues == {Absent, JNull, JNum, JText(LlmSystem)}
ComponentValues == {Absent, JNum, JText(LlmSystem)}

Objects == {JObj([alert_type |-> a, severity |-> s, title |-> t,
                  source_system |-> y, affected_component |-> c]) :
            a \in TypeValues, s \in SeverityValues, t \in TitleValues,
            y \in SystemValues, c \in ComponentValues}
NonObjects == {JScalar("list"), JScalar("num"), JScalar("null"), JScalar("str")}

Wrapped(j) == {<<Json(j)>>,
               <<Ws, Json(j), Ws>>,
               <<FenceJson, Ws, Json(j), Ws, Fence>>,
               <<Fence, Json(j), Fence, Ws>>}
Garbage == {<<>>, <<Junk>>, <<Json(JScalar("num")), Junk>>, <<FenceJson, Fence>>,
            <<FenceJson, FenceJson, Json(JScalar("list")), Fence>>,
            <<Ws, Fence, Junk, Fence>>}

\* every outcome of the classification call
ClassifierCalls ==
    {CallFails} \cup {Returns(text) : text \in Garbage}
    \cup UNION {{Returns(text) : text \in Wrapped(j)} : j \in Objects}
    \cup {Returns(<<Json(j)>>) : j \in NonObjects}

\* the text cannot be parsed as JSON (json.JSONDecodeError)
Unparseable(call) == ~call.raised /\ ~JsonDecodes(StripFences(call.text))

(***************************************************************************)
(* Markdown texts: sequences of lines.  A line is a level-2/3 header, a    *)
(* blank line, or one sentence (ending in . ! or ?); consecutive sentence  *)
(* lines form a paragraph.  The field at identifies where the line stands  *)
(* in the source document; part is the "(Part N)" suffix of a rendered     *)
(* header (0: none).                                                       *)
(***************************************************************************)

Line(k, n, at, part) == [k |-> k, n |-> n, at |-> at, part |-> part]
BlankLine == Line("blank", 0, 0, 0)

\* number of characters of a line
LineLen(l) ==
    CASE l.k = "blank" -> 0
      [] l.k = "sent" -> l.n
      [] l.k = "header" -> 3 + l.n + (IF l.part > 0 THEN 9 ELSE 0)

\* len() of the text made of the lines joined by one separator character
RECURSIVE SumLen(_)
SumLen(ls) == IF ls = <<>> THEN 0 ELSE LineLen(Head(ls)) + SumLen(Tail(ls))
TextLen(ls) == IF ls = <<>> THEN 0 ELSE SumLen(ls) + Len(ls) - 1

\* lines kept as they are, blank lines at both ends included
NoStrip(ls) == ls

RECURSIVE LStripLines(_)
LStripLines(ls) ==
    IF ls # <<>> /\ Head(ls).k = "blank" THEN LStripLines(Tail(ls)) ELSE ls
RECURSIVE RStripLines(_)
RStripLines(ls) ==
    IF ls # <<>> /\ ls[Len(ls)].k = "blank"
    THEN RStripLines(SubSeq(ls, 1, Len(ls) - 1)) ELSE ls
\* str.strip() of a text
StripLines(ls) == RStripLines(LStripLines(ls))

\* length of the header text "Introduction"
INTRO_LEN == 12
NoHeader == Line("header", 0, 0, 0)
\* section_header or "Introduction"
HeaderText(h) == IF h.n = 0 THEN Line("header", INTRO_LEN, 0, 0) ELSE h

(***************************************************************************)
(* MarkdownChunker                                                         *)
(***************************************************************************)

\* MarkdownChunker._split_by_headers: the loop over the lines
RECURSIVE SplitLoop(_, _, _, _)
SplitLoop(lines, current_header, current_content, sections) ==
    IF lines = <<>>
    THEN IF current_content # <<>> \/ current_header.n > 0
         THEN Append(sections, [header |-> current_header,
                                content |-> StripLines(current_content)])
         ELSE sections
    ELSE IF Head(lines).k = "header"
         THEN SplitLoop(Tail(lines), Head(lines), <<>>,
                        IF current_content # <<>> \/ current_header.n > 0
                        THEN Append(sections, [header |-> current_header,
                                               content |-> StripLines(current_content)])
                        ELSE sections)
         ELSE SplitLoop(Tail(lines), current_header,
                        Append(current_content, Head(lines)), sections)

SplitByHeaders(content) == SplitLoop(content, NoHeader, <<>>, <<>>)

\* text.split('\n\n'), each piece stripped, the empty ones skipped
RECURSIVE ParagraphsLoop(_, _, _)
ParagraphsLoop(lines, current, paras) ==
    IF lines = <<>>
    THEN IF current # <<>> THEN Append(paras, current) ELSE paras
    ELSE IF Head(lines).k = "blank"
         THEN ParagraphsLoop(Tail(lines), <<>>,
                             IF current # <<>> THEN Append(paras, current) ELSE paras)
         ELSE ParagraphsLoop(Tail(lines), Append(current, Head(lines)), paras)
Paragraphs(text) == ParagraphsLoop(text, <<>>, <<>>)

\* '\n\n'.join(paragraphs)
RECURSIVE JoinParagraphs(_)
JoinParagraphs(ps) ==
    IF ps = <<>> THEN <<>>
    ELSE IF Len(ps) = 1 THEN ps[1]
    ELSE ps[1] \o <<BlankLine>> \o JoinParagraphs(Tail(ps))

\* MarkdownChunker._split_sentences: one sentence per line of the paragraph
SplitSentences(para) == para

\* _group_sentences 202-209: the trailing sentences kept as overlap
RECURSIVE OverlapLoop(_, _, _, _)
OverlapLoop(current_chunk, i, overlap_size, overlap_sentences) ==
    IF i = 0 THEN overlap_sentences
    ELSE IF overlap_size + LineLen(current_chunk[i]) <= chunk_overlap
         THEN OverlapLoop(current_chunk, i - 1,
                          overlap_size + LineLen(current_chunk[i]) + 1,
                          <<current_chunk[i]>> \o overlap_sentences)
         ELSE overlap_sentences
Overlap(current_chunk) == OverlapLoop(current_chunk, Len(current_chunk), 0, <<>>)

\* the seeding with the sentence that did not fit left out
SeedChunkDropping(current_chunk, sentence) ==
    IF Overlap(current_chunk) = <<>> THEN <<sentence>> ELSE Overlap(current_chunk)

\* the chunk that follows a closed sentence chunk (chunker.py 211)
SeedChunk(current_chunk, sentence) == Overlap(current_chunk) \o <<sentence>>

\* MarkdownChunker._group_sentences: the loop over the sentences
RECURSIVE GroupLoop(_, _, _, _)
GroupLoop(sentences, chunks_, current_chunk, current_length) ==
    IF sentences = <<>>
    THEN IF current_chunk # <<>> THEN Append(chunks_, current_chunk) ELSE chunks_
    ELSE LET sentence == Head(sentences)
             sent_length == LineLen(sentence)
         IN  IF current_length + sent_length <= chunk_size
             THEN GroupLoop(Tail(sentences), chunks_,
                            Append(current_chunk, sentence),
                            current_length + sent_length + 1)
             ELSE IF current_chunk # <<>>
                  THEN LET next == SeedChunk(current_chunk, sentence)
                       IN  GroupLoop(Tail(sentences), Append(chunks_, current_chunk),
                                     next, SumLen(next) + Len(next))
                  ELSE GroupLoop(Tail(sentences), chunks_, <<sentence>>, sent_length)

GroupSentences(sentences) ==
    IF sentences = <<>> THEN <<>> ELSE GroupLoop(sentences, <<>>, <<>>, 0)

\* MarkdownChunker._split_with_overlap: the loop over the paragraphs
RECURSIVE ParaLoop(_, _, _, _)
ParaLoop(paragraphs, chunks_, current_chunk, current_length) ==
    IF paragraphs = <<>>
    THEN IF current_chunk # <<>>
         THEN Append(chunks_, JoinParagraphs(current_chunk)) ELSE chunks_
    ELSE LET para == Head(paragraphs)
             para_length == TextLen(para)
             saved == IF current_chunk # <<>>
                      THEN Append(chunks_, JoinParagraphs(current_chunk)) ELSE chunks_
         IN  IF current_length + para_length <= chunk_size
             THEN ParaLoop(Tail(paragraphs), chunks_, Append(current_chunk, para),
                           current_length + para_length + 2)
             ELSE IF para_length > chunk_size
                  THEN ParaLoop(Tail(paragraphs),
                                saved \o GroupSentences(SplitSentences(para)), <<>>, 0)
                  ELSE ParaLoop(Tail(paragraphs), saved, <<para>>, para_length)

SplitWithOverlap(text) == ParaLoop(Paragraphs(text), <<>>, <<>>, 0)

\* MarkdownChunker._infer_type; a path is the sequence of its lower-cased words
InferType(source_file) ==
    LET words == {source_file[i] : i \in 1..Len(source_file)}
    IN  IF "infrastructure" \in words THEN "infrastructure"
        ELSE IF "application" \in words THEN "application"
        ELSE IF "monitoring" \in words THEN "monitoring"
        ELSE "general"

DocumentChunk(content, source_file, header, part, chunk_index) ==
    [content |-> content,
     metadata |-> [source |-> source_file, section |-> HeaderText(header).at,
                   part |-> part, type |-> InferType(source_file)],
     chunk_index |-> chunk_index,
     source_file |-> source_file,
     section_header |-> HeaderText(header).at]

\* chunker.py 57-73: the chunk of a section that fits
WholeSection(sec, source_file, chunk_index) ==
    DocumentChunk(IF sec.header.n > 0
                  THEN <<Line("header", sec.header.n, sec.header.at, 0), BlankLine>>
                       \o sec.content
                  ELSE sec.content,
                  source_file, sec.header, 0, chunk_index)

\* metadata "part" of a chunk: 0 when the dict has no such key, NonePart when
\* the key is there with the value None, else the part number
NonePart == -1

\* a chunk index that starts again in every section that is split
PartIndexInSection(out, i) == i - 1

\* chunker.py 92: chunk_index=len(chunks)
PartIndex(out, i) == Len(out)

\* chunker.py 76-95: the chunks of a section that is split
RECURSIVE PartsLoop(_, _, _, _, _)
PartsLoop(sec, source_file, sub_chunks, i, out) ==
    IF i > Len(sub_chunks) THEN out
    ELSE LET header_text == HeaderText(sec.header)
             suffix == IF Len(sub_chunks) > 1 THEN i ELSE 0
             part == IF Len(sub_chunks) > 1 THEN i ELSE NonePart
             chunk_content == <<Line("header", header_text.n, header_text.at, suffix),
                                BlankLine>> \o sub_chunks[i]
         IN  PartsLoop(sec, source_file, sub_chunks, i + 1,
                       Append(out, DocumentChunk(chunk_content, source_file, sec.header,
                                                 part, PartIndex(out, i))))

\* MarkdownChunker.chunk_document: the loop over the sections
RECURSIVE SectionsLoop(_, _, _)
SectionsLoop(sections, source_file, out) ==
    IF sections = <<>> THEN out
    ELSE LET sec == Head(sections)
         IN  IF sec.content = <<>>
             THEN SectionsLoop(Tail(sections), source_file, out)
             ELSE IF TextLen(sec.content) <= chunk_size
                  THEN SectionsLoop(Tail(sections), source_file,
                                    Append(out, WholeSection(sec, source_file, Len(out))))
                  ELSE SectionsLoop(Tail(sections), source_file,
                                    PartsLoop(sec, source_file,
                                              SplitWithOverlap(sec.content), 1, out))

ChunkDocument(content, source_file) ==
    SectionsLoop(SplitByHeaders(content), source_file, <<>>)

(***************************************************************************)
(* Inputs of the chunker                                                   *)
(***************************************************************************)

MaxLines == 4          \* lines of a document
MaxChunkSize == 4      \* largest chunk_size tried
MaxOverlap == 2        \* largest chunk_overlap tried
HeaderNameLen == 1     \* characters of a header text

ChunkSizes == {MaxChunkSize - 1, MaxChunkSize}
Overlaps == 0..MaxOverlap
\* sentence lengths: short ones and one longer than every chunk_size
SentLens == {1, 2, MaxChunkSize + 1}

LineKinds == {[k |-> "header", n |-> HeaderNameLen], [k |-> "blank", n |-> 0]}
             \cup {[k |-> "sent", n |-> l] : l \in SentLens}

\* content.split('\n'): the lines of the document, each with its position
Numbered(d) == [i \in 1..Len(d) |-> Line(d[i].k, d[i].n, i, 0)]
Documents == UNION {{Numbered(d) : d \in [1..n -> LineKinds]} : n \in 0..MaxLines}

ChunkSource == <<"infrastructure", "disk", "md">>

(***************************************************************************)
(* VectorStore: the collection is a list of rows                           *)
(***************************************************************************)

Row(id, doc, embedding, metadata) ==
    [id |-> id, document |-> doc, embedding |-> embedding, metadata |-> metadata]

Ids(coll) == {coll[i].id : i \in 1..Len(coll)}
HasDuplicates(seq) == \E i, j \in 1..Len(seq) : i < j /\ seq[i] = seq[j]

\* collection.add of one row: insert it whatever the collection holds
InsertRow(coll, row) == Append(coll, row)

\* collection.upsert of one row: replace the row of that id, else insert
UpsertRow(coll, row) ==
    IF \E i \in 1..Len(coll) : coll[i].id = row.id
    THEN [i \in 1..Len(coll) |-> IF coll[i].id = row.id THEN row ELSE coll[i]]
    ELSE Append(coll, row)

RECURSIVE UpsertAll(_, _)
UpsertAll(coll, rows) ==
    IF rows = <<>> THEN coll ELSE UpsertAll(UpsertRow(coll, Head(rows)), Tail(rows))

\* a store that keeps only the rows of the last call
AddDocumentsReplacing(coll, rows) == UpsertAll(<<>>, rows)

\* VectorStore.add_documents: the collection after the call; the backend
\* rejects a batch that is empty or repeats an id and stores nothing of it
AddDocuments(coll, rows) ==
    IF rows = <<>> \/ HasDuplicates([i \in 1..Len(rows) |-> rows[i].id])
    THEN coll
    ELSE UpsertAll(coll, rows)

\* similarity scores and distances are counted in hundredths
MIN_SIMILARITY_SCORE == 50
SEARCH_RESULTS_LIMIT == 5

SearchResult(row, score) ==
    [content |-> row.document, source_file |-> row.metadata.source,
     section |-> row.metadata.section, score |-> score, metadata |-> row.metadata]

\* collection.query: the positions of the rows that pass the where filter,
\* nearest first, at most n_results of them
RECURSIVE Nearest(_, _, _)
Nearest(candidates, dist, n) ==
    IF candidates = {} \/ n = 0 THEN <<>>
    ELSE LET best == CHOOSE i \in candidates :
                        \A j \in candidates :
                            dist[i] < dist[j] \/ (dist[i] = dist[j] /\ i <= j)
         IN  <<best>> \o Nearest(candidates \ {best}, dist, n - 1)

\* Optional[str]: None, or a string
None == <<>>
Some(str) == <<str>>

\* vector_store.py 104: {"type": filter_type} if filter_type else None; the
\* empty string is as false as None
WhereFilter(filter_type) ==
    IF filter_type # None /\ filter_type[1] # "" THEN filter_type ELSE None

\* vector_store.py 123: score = 1 - distance
Score(distance) == 100 - distance

\* a threshold test that lets every score through
QualifiesAlways(score, min_score) == TRUE

\* vector_store.py 125: if score >= min_score
Qualifies(score, min_score) == score >= min_score

\* VectorStore.search; dist[i] is the cosine distance of row i to the query
VectorStoreSearch(coll, dist, n_results, filter_type, min_score) ==
    LET where_filter == WhereFilter(filter_type)
        candidates == {i \in 1..Len(coll) :
                          where_filter = None \/ coll[i].metadata.type = where_filter[1]}
        hits == Nearest(candidates, dist, n_results)
        scored == [h \in 1..Len(hits) |->
                      SearchResult(coll[hits[h]], Score(dist[hits[h]]))]
    IN  SelectSeq(scored, LAMBDA r : Qualifies(r.score, min_score))

\* cosine of the angle between two unit vectors, in hundredths; a vector is
\* its direction, counted in eighths of a turn
CosTable == <<100, 71, 0, -71, -100, -71, 0, 71>>
\* the collection's space is cosine (vector_store.py 56-59): distance = 1 - cos
CosineDistance(u, v) == 100 - CosTable[((u - v + 8) % 8) + 1]

(***************************************************************************)
(* KnowledgeBaseIndexer                                                    *)
(***************************************************************************)

\* hashlib.md5(content).hexdigest()[:8], taken as collision-free
ContentHash(content) == <<"md5", content>>

\* the embedding of a text: a function of the text alone
Encode(text) == <<"vec", text>>

\* an id that leaves the content out
GenerateIdNoHash(chunk) == <<chunk.source_file, chunk.chunk_index, <<"md5", <<>>>>>>

\* KnowledgeBaseIndexer._generate_id
GenerateId(chunk) == <<chunk.source_file, chunk.chunk_index, ContentHash(chunk.content)>>

\* indexer.py 110-128: the rows built from the chunks
RowsOf(cs) ==
    [i \in 1..Len(cs) |-> Row(GenerateId(cs[i]), cs[i].content,
                              Encode(cs[i].content), cs[i].metadata)]

\* indexer.py 87-102: the chunks of the files, in the order rglob lists them
RECURSIVE AllChunks(_, _)
AllChunks(md_files, fs) ==
    IF md_files = <<>> THEN <<>>
    ELSE ChunkDocument(fs[Head(md_files)], Head(md_files))
         \o AllChunks(Tail(md_files), fs)

(***************************************************************************)
(* Runbook files and the state every specification starts from             *)
(***************************************************************************)

InfraFile == <<"infrastructure", "disk", "md">>
AppFile == <<"application", "api", "md">>
FileNames == {InfraFile, AppFile}

H == [k |-> "header", n |-> HeaderNameLen]
S(n) == [k |-> "sent", n |-> n]
B == [k |-> "blank", n |-> 0]

\* the texts a runbook file may hold
EmptyText == <<>>
OneSection == Numbered(<<H, S(1)>>)
OneSectionEdited == Numbered(<<H, S(2)>>)
LongSection == Numbered(<<H, S(2), S(2), S(2)>>)
FileTexts == {EmptyText, OneSection, OneSectionEdited, LongSection}

NoCall == Returns(<<>>)

\* the request variables while no request is running
NoRequest ==
    /\ mode = "none"
    /\ alert_no = 0
    /\ raw_message = <<>>
    /\ llm_response = NoCall
    /\ parsed_alert = NoAlert
    /\ search_results = <<>>
    /\ suggestion = <<>>
    /\ confidence = ""
    /\ runbook_context = <<>>
    /\ error = "none"
    /\ failed_at = "none"
    /\ tickets = <<>>

NoChunking ==
    /\ document = <<>>
    /\ chunks = <<>>

\* no KnowledgeBaseIndexer has been created yet
NoIndexers ==
    /\ indexers = <<>>
    /\ constructions = 0
    /\ callers = <<>>

\* a request to one of the entry points: the configured webhook secret, the
\* X-Spark-Signature header and the body (webhook), the ticket id (re-triage)
HttpRequest(entry, secret, signature, body, ticket_id) ==
    [entry |-> entry, secret |-> secret, signature |-> signature, body |-> body,
     ticket_id |-> ticket_id]
NoHttpRequest == HttpRequest("none", "", None, <<>>, 0)

\* the answer to request number no: HTTP status (0: none yet), detail or
\* status text of the body, and the ticket id the body names (0: none)
Reply(no, status, detail, ticket_id) ==
    [no |-> no, status |-> status, detail |-> detail, ticket_id |-> ticket_id]
NoReply == Reply(0, 0, "", 0)

NoWeb ==
    /\ request = NoHttpRequest
    /\ reply = NoReply
    /\ session = <<>>
    /\ actions = <<>>
    /\ notifications = <<>>
    /\ trace = <<>>

\* a knowledge-base call: rows is what reached add_documents, returned is the
\* value returned (-1: the call raised)
KbCall(op, force, rows, returned) ==
    [op |-> op, force |-> force, rows |-> rows, returned |-> returned]
NoKbCall == KbCall("none", FALSE, <<>>, 0)

EmptyKnowledgeBase ==
    /\ collection = <<>>
    /\ files = [f \in FileNames |-> EmptyText]
    /\ kb_call = NoKbCall
    /\ kb_ops = 0

(***************************************************************************)
(* Classification of one raw message (TriageService.classify_alert)        *)
(***************************************************************************)

\* classify_alert with the classification call ending in one of calls
ClassifyWith(calls) ==
    /\ pc = "received"
    /\ \E call \in calls :
          LET r == ClassifyAlert(raw_message, call)
          IN  /\ llm_response' = call
              /\ IF r.exc = "none"
                 THEN /\ pc' = "classified"
                      /\ parsed_alert' = r.alert
                      /\ UNCHANGED <<error, failed_at>>
                 ELSE /\ pc' = "failed"
                      /\ error' = r.exc
                      /\ failed_at' = "classify"
                      /\ UNCHANGED parsed_alert
    /\ UNCHANGED <<mode, alert_no, raw_message, search_results, suggestion,
                   confidence, runbook_context, tickets>>
    /\ UNCHANGED <<kbVars, chunkVars, embedVars, webVars>>

ClassifyAny == ClassifyWith(ClassifierCalls)

InitClassify ==
    /\ NoWeb
    /\ NoIndexers
    /\ pc = "received"
    /\ mode = "classify_alert"
    /\ alert_no = 1
    /\ raw_message \in RawMessages
    /\ llm_response = NoCall
    /\ parsed_alert = NoAlert
    /\ search_results = <<>>
    /\ suggestion = <<>>
    /\ confidence = ""
    /\ runbook_context = <<>>
    /\ error = "none"
    /\ failed_at = "none"
    /\ tickets = <<>>
    /\ EmptyKnowledgeBase
    /\ chunk_size = MaxChunkSize
    /\ chunk_overlap = MaxOverlap
    /\ NoChunking

SpecClassify == InitClassify /\ [][ClassifyAny]_vars

(***************************************************************************)
(* One call of MarkdownChunker.chunk_document                              *)
(***************************************************************************)

ChunkDocumentCall ==
    /\ pc = "chunk_input"
    /\ chunks' = ChunkDocument(document, ChunkSource)
    /\ pc' = "chunked"
    /\ UNCHANGED <<mode, alert_no, raw_message, llm_response, parsed_alert,
                   search_results, suggestion, confidence, runbook_context, error, failed_at, tickets>>
    /\ UNCHANGED <<kbVars, embedVars, webVars, chunk_size, chunk_overlap, document>>

InitChunk ==
    /\ NoWeb
    /\ NoIndexers
    /\ pc = "chunk_input"
    /\ NoRequest
    /\ EmptyKnowledgeBase
    /\ chunk_size \in ChunkSizes
    /\ chunk_overlap \in Overlaps
    /\ document \in Documents
    /\ chunks = <<>>

SpecChunk == InitChunk /\ [][ChunkDocumentCall]_vars

(***************************************************************************)
(* The vector store used directly: add_documents and clear                 *)
(***************************************************************************)

MaxStoreIds == 2       \* ids used by direct add_documents calls

StoreIds == {<<InfraFile, i, ContentHash(EmptyText)>> : i \in 0..(MaxStoreIds - 1)}
StoreDocs == {OneSection, OneSectionEdited}
StoreRows == {Row(id, d, Encode(d),
                  [source |-> InfraFile, section |-> 0, part |-> 0,
                   type |-> "infrastructure"]) : id \in StoreIds, d \in StoreDocs}
\* the batches of one call: none, one or two rows
Batches == {<<>>} \cup {<<r>> : r \in StoreRows}
           \cup {<<r1, r2>> : r1 \in StoreRows, r2 \in StoreRows}

\* VectorStore.add_documents called with a batch
AddDocumentsCall ==
    /\ pc = "store"
    /\ \E rows \in Batches :
          /\ collection' = AddDocuments(collection, rows)
          /\ kb_call' = KbCall("add_documents", FALSE, rows,
                               IF rows = <<>> \/ HasDuplicates([i \in 1..Len(rows) |-> rows[i].id])
                               THEN -1 ELSE 0)
    /\ UNCHANGED <<triageVars, chunkVars, embedVars, webVars, files, kb_ops>>

\* VectorStore.clear: delete_collection swallows a failure of the backend
ClearCall ==
    /\ pc = "store"
    /\ \E deleted \in BOOLEAN :
          collection' = IF deleted THEN <<>> ELSE collection
    /\ kb_call' = KbCall("clear", FALSE, <<>>, 0)
    /\ UNCHANGED <<triageVars, chunkVars, embedVars, webVars, files, kb_ops>>

InitStore ==
    /\ NoWeb
    /\ NoIndexers
    /\ pc = "store"
    /\ NoRequest
    /\ EmptyKnowledgeBase
    /\ chunk_size = MaxChunkSize
    /\ chunk_overlap = MaxOverlap
    /\ NoChunking

NextStore == AddDocumentsCall \/ ClearCall
SpecStore == InitStore /\ [][NextStore]_vars

(***************************************************************************)
(* The indexer over runbook files that are edited between passes           *)
(***************************************************************************)

MaxKbOps == 3          \* knowledge-base operations in one run

\* the orders in which rglob may list the files
FileOrders == {<<InfraFile, AppFile>>, <<AppFile, InfraFile>>}

\* a runbook file is rewritten
EditFile ==
    /\ pc = "kb"
    /\ kb_ops < MaxKbOps
    /\ \E f \in FileNames, text \in FileTexts :
          /\ text # files[f]
          /\ files' = [files EXCEPT ![f] = text]
    /\ kb_ops' = kb_ops + 1
    /\ kb_call' = KbCall("edit", FALSE, <<>>, 0)
    /\ UNCHANGED <<triageVars, chunkVars, embedVars, webVars, collection>>

\* KnowledgeBaseIndexer.index_all_runbooks
IndexAllRunbooks ==
    /\ pc = "kb"
    /\ kb_ops < MaxKbOps
    /\ \E force_reindex \in BOOLEAN, md_files \in FileOrders,
          deleted \in BOOLEAN, encoded \in BOOLEAN :
          LET cleared == IF force_reindex /\ deleted THEN <<>> ELSE collection
              all_chunks == AllChunks(md_files, files)
          IN  IF all_chunks = <<>>
              THEN /\ collection' = cleared
                   /\ kb_call' = KbCall("index_all", force_reindex, <<>>, 0)
              ELSE IF ~encoded
              THEN /\ collection' = cleared
                   /\ kb_call' = KbCall("index_all", force_reindex, <<>>, -1)
              ELSE /\ collection' = AddDocuments(cleared, RowsOf(all_chunks))
                   /\ kb_call' = KbCall("index_all", force_reindex, RowsOf(all_chunks),
                                        Len(all_chunks))
    /\ kb_ops' = kb_ops + 1
    /\ UNCHANGED <<triageVars, chunkVars, embedVars, webVars, files>>

\* KnowledgeBaseIndexer.index_single_file
IndexSingleFile ==
    /\ pc = "kb"
    /\ kb_ops < MaxKbOps
    /\ \E f \in FileNames, encoded \in BOOLEAN :
          LET cs == ChunkDocument(files[f], f)
          IN  IF cs = <<>>
              THEN /\ UNCHANGED collection
                   /\ kb_call' = KbCall("index_single", FALSE, <<>>, 0)
              ELSE IF ~encoded
              THEN /\ UNCHANGED collection
                   /\ kb_call' = KbCall("index_single", FALSE, <<>>, -1)
              ELSE /\ collection' = AddDocuments(collection, RowsOf(cs))
                   /\ kb_call' = KbCall("index_single", FALSE, RowsOf(cs), Len(cs))
    /\ kb_ops' = kb_ops + 1
    /\ UNCHANGED <<triageVars, chunkVars, embedVars, webVars, files>>

InitIndex ==
    /\ NoWeb
    /\ NoIndexers
    /\ pc = "kb"
    /\ NoRequest
    /\ collection = <<>>
    /\ files \in [FileNames -> {OneSection, LongSection}]
    /\ kb_call = NoKbCall
    /\ kb_ops = 0
    /\ chunk_size \in ChunkSizes
    /\ chunk_overlap \in {0, MaxOverlap}
    /\ NoChunking

NextIndex == EditFile \/ IndexAllRunbooks \/ IndexSingleFile
SpecIndex == InitIndex /\ [][NextIndex]_vars

(***************************************************************************)
(* One query of the knowledge base (KnowledgeBaseIndexer.search)           *)
(***************************************************************************)

MaxSearchRows == 2     \* rows of the collection that is queried

\* the types MarkdownChunker._infer_type tags a chunk with
DocTypes == {"infrastructure", "application", "monitoring", "general"}
SearchTypes == {"infrastructure", "application", "general"}
StoredVectors == {0, 1, 4}
QueryVectors == {0, 2}
NoVector == -1

SearchRow(i, type, vec) ==
    Row(<<InfraFile, i, ContentHash(EmptyText)>>, OneSection, vec,
        [source |-> InfraFile, section |-> 0, part |-> 0, type |-> type])
SearchCollections ==
    UNION {{[i \in 1..n |-> SearchRow(i, t[i], v[i])] :
               t \in [1..n -> SearchTypes], v \in [1..n -> StoredVectors]} :
           n \in 0..MaxSearchRows}

\* the arguments callers pass: cli query --limit / --type, search_runbooks
NResults == {0, 1, SEARCH_RESULTS_LIMIT}
FilterTypes == {None, Some(""), Some("infrastructure"), Some("application"),
                Some("bogus")}
MinScores == {-100, MIN_SIMILARITY_SCORE, 90}

\* a search call: its arguments, which capabilities it invoked, how it ended
SearchCall(query, n, filter, threshold, encoded, queried, exc, results) ==
    [op |-> "search", force |-> FALSE, rows |-> <<>>,
     returned |-> IF exc = "none" THEN Len(results) ELSE -1,
     query_embedding |-> query, n_results |-> n,
     filter_type |-> filter, min_score |-> threshold,
     encoded |-> encoded, queried |-> queried, exc |-> exc, results |-> results]

\* KnowledgeBaseIndexer.search: encode the query, then VectorStore.search
IndexerSearch ==
    /\ pc = "search"
    /\ \E n_results \in NResults, filter_type \in FilterTypes, min_score \in MinScores :
          \/ kb_call' = SearchCall(NoVector, n_results, filter_type, min_score,
                                   TRUE, FALSE, "EmbeddingError", <<>>)
          \/ \E query_embedding \in QueryVectors :
                \/ kb_call' = SearchCall(query_embedding, n_results, filter_type,
                                         min_score, TRUE, TRUE, "IndexBackendError", <<>>)
                \/ LET dist == [i \in 1..Len(collection) |->
                                   CosineDistance(query_embedding, collection[i].embedding)]
                   IN  kb_call' = SearchCall(query_embedding, n_results, filter_type,
                                             min_score, TRUE, TRUE, "none",
                                             VectorStoreSearch(collection, dist, n_results,
                                                               filter_type, min_score))
    /\ pc' = "searched"
    /\ UNCHANGED <<mode, alert_no, raw_message, llm_response, parsed_alert,
                   search_results, suggestion, confidence, runbook_context, error,
                   failed_at, tickets>>
    /\ UNCHANGED <<collection, files, kb_ops, chunkVars, embedVars, webVars>>

InitSearch ==
    /\ NoWeb
    /\ NoIndexers
    /\ pc = "search"
    /\ NoRequest
    /\ collection \in SearchCollections
    /\ files = [f \in FileNames |-> EmptyText]
    /\ kb_call = NoKbCall
    /\ kb_ops = 0
    /\ chunk_size = MaxChunkSize
    /\ chunk_overlap = MaxOverlap
    /\ NoChunking

SpecSearch == InitSearch /\ [][IndexerSearch]_vars

(***************************************************************************)
(* TriageService: process_alert and quick_triage, one stage per step       *)
(***************************************************************************)

MaxAlerts == 2         \* triage requests in one run

\* cosine distances (in hundredths) the backend may report for a row
Distances == {10, 60}

TriageMessages == {Msg(3)}

\* outcomes of the classification call tried in the pipeline
GoodObject == JObj([alert_type |-> JName("infrastructure"), severity |-> JName("critical"),
                    title |-> JText(LlmTitle), source_system |-> JText(LlmSystem),
                    affected_component |-> JNull])
BogusObject == JObj([alert_type |-> JName("bogus"), severity |-> JName("bogus"),
                     title |-> Absent, source_system |-> Absent,
                     affected_component |-> Absent])
NullTitleObject == JObj([alert_type |-> JName("application"), severity |-> JName("low"),
                         title |-> JNull, source_system |-> Absent,
                         affected_component |-> Absent])
TriageCalls == {CallFails, Returns(<<Junk>>), Returns(<<Json(JScalar("list"))>>),
                Returns(<<Json(NullTitleObject)>>),
                Returns(<<FenceJson, Ws, Json(GoodObject), Ws, Fence>>),
                Returns(<<Json(BogusObject)>>)}

\* the generated text is a sequence of words
Words == {"High", "Low", "Confidence", "Medium", "Highly"}
\* word contains marker as a substring
WordHas(word, marker) == word = marker \/ (word = "Highly" /\ marker = "High")
\* marker in text (Python substring test)
Mentions(text, marker) == \E i \in 1..Len(text) : WordHas(text[i], marker)

\* texts the generation capability returns in the pipeline
Suggestions == {<<>>, <<"High", "Confidence">>, <<"Low", "Confidence">>, <<"High", "Low">>}

\* the heuristic without its default
ExtractConfidenceNoDefault(text) ==
    IF Mentions(text, "High") /\ Mentions(text, "Confidence") THEN "High"
    ELSE IF Mentions(text, "Low") /\ Mentions(text, "Confidence") THEN "Low"
    ELSE ""

\* triage_service.py 185-190
ExtractConfidence(text) ==
    IF Mentions(text, "High") /\ Mentions(text, "Confidence") THEN "High"
    ELSE IF Mentions(text, "Low") /\ Mentions(text, "Confidence") THEN "Low"
    ELSE "Medium"

\* one part of the context block handed to the generation capability
ContextPart(kind, source_file, score, content) ==
    [kind |-> kind, source_file |-> source_file, score |-> score, content |-> content]
\* "No relevant runbook sections found. Please use general troubleshooting practices."
NoRunbookContext == <<ContextPart("No relevant runbook sections found", <<>>, 0, <<>>)>>

\* the context block with no sentinel for an empty result list
FormatRunbookContextBlank(results) ==
    [i \in 1..Len(results) |->
        ContextPart("Source", results[i].source_file, results[i].score, results[i].content)]

\* TriageService._format_runbook_context
FormatRunbookContext(results) ==
    IF results = <<>> THEN NoRunbookContext
    ELSE [i \in 1..Len(results) |->
             ContextPart("Source", results[i].source_file, results[i].score,
                         results[i].content)]

\* f"{alert.title} {alert.description}"
SearchQuery(alert) == alert.title \o alert.description

\* repository.py 239-246: the row _log_action adds to the session
ActionRow(ticket_id, action_type) == [ticket_id |-> ticket_id, action_type |-> action_type]

\* Session.commit: the rows the session holds become committed rows
Commit(committed, pending) == committed \o pending

\* the row TicketRepository.create commits (repository.py 35-51)
Ticket(id, alert, text, runbook_sources, confidence_score, message_id) ==
    [id |-> id, title |-> alert.title, description |-> alert.description,
     raw_message |-> alert.raw_message, alert_type |-> alert.alert_type,
     severity |-> alert.severity, status |-> "open",
     source_system |-> alert.source_system, webex_message_id |-> message_id,
     suggestion |-> text, runbook_sources |-> runbook_sources,
     confidence_score |-> confidence_score, updated_at |-> message_id]

\* search_runbooks with the filter left out
FilterForNone(alert) == None

\* triage_service.py 144-147: the filter search_runbooks derives from the alert
FilterFor(alert) ==
    IF alert.alert_type # "unknown" THEN Some(alert.alert_type) ELSE None

\* a caller starts process_alert or quick_triage on a raw message
Start ==
    /\ pc = "idle"
    /\ alert_no < MaxAlerts
    /\ \E m \in TriageMessages, entry \in {"process_alert", "quick_triage"} :
          /\ raw_message' = m
          /\ mode' = entry
    /\ alert_no' = alert_no + 1
    /\ pc' = "received"
    /\ UNCHANGED <<llm_response, parsed_alert, search_results, suggestion, confidence, runbook_context,
                   error, failed_at, tickets>>
    /\ UNCHANGED <<kbVars, chunkVars, embedVars, webVars>>

\* step 1: classify_alert
Classify == ClassifyWith(TriageCalls)

\* search_runbooks treating a failed search as an empty result
RetrieveSwallowing ==
    /\ pc = "classified"
    /\ \/ \E exc \in {"EmbeddingError", "IndexBackendError"} :
             /\ pc' = "retrieved"
             /\ error' = exc
             /\ failed_at' = "retrieve"
             /\ kb_call' = SearchCall(IF exc = "EmbeddingError" THEN NoVector
                                      ELSE Encode(SearchQuery(parsed_alert)),
                                      SEARCH_RESULTS_LIMIT, FilterFor(parsed_alert),
                                      MIN_SIMILARITY_SCORE, TRUE,
                                      exc # "EmbeddingError", exc, <<>>)
             /\ search_results' = <<>>
       \/ \E dist \in [1..Len(collection) -> Distances] :
             /\ search_results' =
                   VectorStoreSearch(collection, dist, SEARCH_RESULTS_LIMIT,
                                     FilterFor(parsed_alert), MIN_SIMILARITY_SCORE)
             /\ kb_call' = SearchCall(Encode(SearchQuery(parsed_alert)),
                                      SEARCH_RESULTS_LIMIT, FilterFor(parsed_alert),
                                      MIN_SIMILARITY_SCORE, TRUE, TRUE, "none",
                                      search_results')
             /\ pc' = "retrieved"
             /\ UNCHANGED <<error, failed_at>>
    /\ UNCHANGED <<mode, alert_no, raw_message, llm_response, parsed_alert, suggestion,
                   confidence, runbook_context, tickets>>
    /\ UNCHANGED <<collection, files, kb_ops, chunkVars, embedVars, webVars>>

\* step 2: search_runbooks (indexer.search: encode the query, query the store)
Retrieve ==
    /\ pc = "classified"
    /\ \/ \E exc \in {"EmbeddingError", "IndexBackendError"} :
             /\ pc' = "failed"
             /\ error' = exc
             /\ failed_at' = "retrieve"
             /\ kb_call' = SearchCall(IF exc = "EmbeddingError" THEN NoVector
                                      ELSE Encode(SearchQuery(parsed_alert)),
                                      SEARCH_RESULTS_LIMIT, FilterFor(parsed_alert),
                                      MIN_SIMILARITY_SCORE, TRUE,
                                      exc # "EmbeddingError", exc, <<>>)
             /\ UNCHANGED search_results
       \/ \E dist \in [1..Len(collection) -> Distances] :
             /\ search_results' =
                   VectorStoreSearch(collection, dist, SEARCH_RESULTS_LIMIT,
                                     FilterFor(parsed_alert), MIN_SIMILARITY_SCORE)
             /\ kb_call' = SearchCall(Encode(SearchQuery(parsed_alert)),
                                      SEARCH_RESULTS_LIMIT, FilterFor(parsed_alert),
                                      MIN_SIMILARITY_SCORE, TRUE, TRUE, "none",
                                      search_results')
             /\ pc' = "retrieved"
             /\ UNCHANGED <<error, failed_at>>
    /\ UNCHANGED <<mode, alert_no, raw_message, llm_response, parsed_alert, suggestion,
                   confidence, runbook_context, tickets>>
    /\ UNCHANGED <<collection, files, kb_ops, chunkVars, embedVars, webVars>>

\* generate_suggestion with the generation capability returning one of texts
GenerateWith(texts) ==
    /\ pc = "retrieved"
    /\ runbook_context' = FormatRunbookContext(search_results)
    /\ \/ /\ pc' = "failed"
          /\ error' = "GenerationError"
          /\ failed_at' = "generate"
          /\ UNCHANGED <<suggestion, confidence>>
       \/ \E text \in texts :
             /\ suggestion' = text
             /\ confidence' = ExtractConfidence(text)
             /\ pc' = "suggested"
             /\ UNCHANGED <<error, failed_at>>
    /\ UNCHANGED <<mode, alert_no, raw_message, llm_response, parsed_alert,
                   search_results, tickets>>
    /\ UNCHANGED <<kbVars, chunkVars, embedVars, webVars>>

\* step 3: generate_suggestion
Generate == GenerateWith(Suggestions)

\* create_ticket run right after retrieval
EarlyHandOffPoint == "retrieved"
\* the stage after which create_ticket runs (triage_service.py 73-84)
HandOffPoint == "suggested"

\* step 4 of process_alert: create_ticket (TicketRepository.create commits)
CreateTicket ==
    /\ pc = HandOffPoint
    /\ mode = "process_alert"
    /\ \/ /\ pc' = "failed"
          /\ error' = "DatabaseError"
          /\ failed_at' = "handoff"
          /\ UNCHANGED <<tickets, session, actions>>
       \/ /\ tickets' = Append(tickets,
                Ticket(Len(tickets) + 1, parsed_alert, suggestion,
                       [i \in 1..Len(search_results) |-> search_results[i].source_file],
                       confidence, alert_no))
          /\ actions' = Commit(actions, session)
          /\ session' = <<ActionRow(Len(tickets) + 1, "created")>>
          /\ pc' = "handed_off"
          /\ UNCHANGED <<error, failed_at>>
    /\ UNCHANGED <<mode, alert_no, raw_message, llm_response, parsed_alert,
                   search_results, suggestion, confidence, runbook_context>>
    /\ UNCHANGED <<kbVars, chunkVars, embedVars, request, reply, notifications, trace>>

\* quick_triage storing its result as a ticket before it returns
ReturnQuickStoring ==
    /\ pc = "suggested"
    /\ mode = "quick_triage"
    /\ pc' = "returned"
    /\ tickets' = Append(tickets,
           Ticket(Len(tickets) + 1, parsed_alert, suggestion,
                  [i \in 1..Len(search_results) |-> search_results[i].source_file],
                  confidence, alert_no))
    /\ UNCHANGED <<mode, alert_no, raw_message, llm_response, parsed_alert,
                   search_results, suggestion, confidence, runbook_context, error,
                   failed_at>>
    /\ UNCHANGED <<kbVars, chunkVars, embedVars, webVars>>

\* quick_triage returns its dictionary; nothing is stored
ReturnQuick ==
    /\ pc = "suggested"
    /\ mode = "quick_triage"
    /\ pc' = "returned"
    /\ UNCHANGED <<mode, alert_no, raw_message, llm_response, parsed_alert,
                   search_results, suggestion, confidence, runbook_context, error, failed_at, tickets>>
    /\ UNCHANGED <<kbVars, chunkVars, embedVars, webVars>>

\* the call has returned or raised; the caller may start another one
Finish ==
    /\ pc \in {"handed_off", "returned", "failed"}
    /\ pc' = "idle"
    /\ mode' = "none"
    /\ raw_message' = <<>>
    /\ llm_response' = NoCall
    /\ parsed_alert' = NoAlert
    /\ search_results' = <<>>
    /\ suggestion' = <<>>
    /\ confidence' = ""
    /\ runbook_context' = <<>>
    /\ error' = "none"
    /\ failed_at' = "none"
    /\ UNCHANGED <<alert_no, tickets>>
    /\ UNCHANGED <<kbVars, chunkVars, embedVars, webVars>>

InitTriage ==
    /\ NoWeb
    /\ NoIndexers
    /\ pc = "idle"
    /\ NoRequest
    /\ chunk_size = MaxChunkSize
    /\ chunk_overlap = MaxOverlap
    /\ files = [f \in FileNames |-> OneSection]
    /\ collection = AddDocuments(<<>>, RowsOf(AllChunks(<<InfraFile, AppFile>>, files)))
    /\ kb_call = NoKbCall
    /\ kb_ops = 0
    /\ NoChunking

NextTriage ==
    Start \/ Classify \/ Retrieve \/ Generate \/ CreateTicket \/ ReturnQuick \/ Finish
SpecTriage == InitTriage /\ [][NextTriage]_vars

(***************************************************************************)
(* generate_suggestion over every short generated text                     *)
(***************************************************************************)

MaxWords == 3          \* words of a generated text

GeneratedTexts == UNION {[1..n -> Words] : n \in 0..MaxWords}

GenerateAny == GenerateWith(GeneratedTexts)

\* a quick_triage request whose retrieval returned nothing or one section
InitConfidence ==
    /\ NoWeb
    /\ NoIndexers
    /\ pc = "retrieved"
    /\ mode = "quick_triage"
    /\ alert_no = 1
    /\ raw_message \in TriageMessages
    /\ llm_response = Returns(<<Junk>>)
    /\ parsed_alert = ClassifyAlert(raw_message, llm_response).alert
    /\ chunk_size = MaxChunkSize
    /\ chunk_overlap = MaxOverlap
    /\ files = [f \in FileNames |-> OneSection]
    /\ collection = AddDocuments(<<>>, RowsOf(AllChunks(<<InfraFile, AppFile>>, files)))
    /\ \E dist \in [1..Len(collection) -> Distances] :
          /\ search_results = VectorStoreSearch(collection, dist, SEARCH_RESULTS_LIMIT,
                                                FilterFor(parsed_alert), MIN_SIMILARITY_SCORE)
          /\ kb_call = SearchCall(Encode(SearchQuery(parsed_alert)), SEARCH_RESULTS_LIMIT,
                                  FilterFor(parsed_alert), MIN_SIMILARITY_SCORE,
                                  TRUE, TRUE, "none", search_results)
    /\ suggestion = <<>>
    /\ confidence = ""
    /\ runbook_context = <<>>
    /\ error = "none"
    /\ failed_at = "none"
    /\ tickets = <<>>
    /\ kb_ops = 0
    /\ NoChunking

SpecConfidence == InitConfidence /\ [][GenerateAny]_vars

(***************************************************************************)
(* The embedding capability: KnowledgeBaseIndexer.embedding_model called   *)
(* by the threads of one process                                           *)
(***************************************************************************)

MaxIndexers == 2       \* KnowledgeBaseIndexer instances created in the process
MaxThreads == 2        \* threads that use the embedding capability

\* _embedding_model of a new instance: None; a model is named by the number
\* of the constructor run that made it
NoModel == 0

Caller(at, inst, model) == [at |-> at, inst |-> inst, model |-> model]
IdleCaller == Caller("idle", 0, NoModel)

\* KnowledgeBaseIndexer.__init__ (run by TriageService.__init__ when no
\* indexer is passed, and by the cli commands)
NewIndexer ==
    /\ pc = "embed"
    /\ Len(indexers) < MaxIndexers
    /\ indexers' = Append(indexers, NoModel)
    /\ UNCHANGED <<constructions, callers>>
    /\ UNCHANGED <<triageVars, kbVars, chunkVars, webVars>>

\* indexer.py 58: if self._embedding_model is None
TestModel(t) ==
    /\ pc = "embed"
    /\ callers[t].at = "idle"
    /\ \E inst \in 1..Len(indexers) :
          callers' = [callers EXCEPT ![t] =
                         Caller(IF indexers[inst] = NoModel THEN "construct" ELSE "return",
                                inst, NoModel)]
    /\ UNCHANGED <<indexers, constructions>>
    /\ UNCHANGED <<triageVars, kbVars, chunkVars, webVars>>

\* indexer.py 59: SentenceTransformer(self.embedding_model_name) runs
ConstructModel(t) ==
    /\ pc = "embed"
    /\ callers[t].at = "construct"
    /\ constructions' = constructions + 1
    /\ callers' = [callers EXCEPT ![t] = Caller("assign", callers[t].inst, constructions')]
    /\ UNCHANGED indexers
    /\ UNCHANGED <<triageVars, kbVars, chunkVars, webVars>>

\* indexer.py 59: self._embedding_model = <the new model>
AssignModel(t) ==
    /\ pc = "embed"
    /\ callers[t].at = "assign"
    /\ indexers' = [indexers EXCEPT ![callers[t].inst] = callers[t].model]
    /\ callers' = [callers EXCEPT ![t] = Caller("return", callers[t].inst, NoModel)]
    /\ UNCHANGED constructions
    /\ UNCHANGED <<triageVars, kbVars, chunkVars, webVars>>

\* indexer.py 60: return self._embedding_model
ReturnModel(t) ==
    /\ pc = "embed"
    /\ callers[t].at = "return"
    /\ callers' = [callers EXCEPT ![t] =
                       Caller("idle", callers[t].inst, indexers[callers[t].inst])]
    /\ UNCHANGED <<indexers, constructions>>
    /\ UNCHANGED <<triageVars, kbVars, chunkVars, webVars>>

InitEmbed ==
    /\ NoWeb
    /\ pc = "embed"
    /\ NoRequest
    /\ EmptyKnowledgeBase
    /\ chunk_size = MaxChunkSize
    /\ chunk_overlap = MaxOverlap
    /\ NoChunking
    /\ indexers = <<>>
    /\ constructions = 0
    /\ callers = [t \in 1..MaxThreads |-> IdleCaller]

NextEmbed ==
    \/ NewIndexer
    \/ \E t \in 1..MaxThreads :
          TestModel(t) \/ ConstructModel(t) \/ AssignModel(t) \/ ReturnModel(t)
SpecEmbed == InitEmbed /\ [][NextEmbed]_vars

(***************************************************************************)
(* Entry points: the Webex webhook, the CLI suggest command, re-triage     *)
(***************************************************************************)

\* settings.webex_webhook_secret: the empty string when none is configured
Secrets == {"", "s3cret"}

\* request bodies: one that validates as WebexWebhookPayload, one that does not
ValidBody == <<"payload">>
BadBody == <<"garbage">>
\* WebexWebhookPayload.model_validate_json(body) succeeds
ParsePayload(body) == body = ValidBody

\* strings of the signature header: the empty string, hex digests, and a
\* string with a character outside ASCII
EmptyStr == <<>>
NonAscii == <<"latin-1">>
IsAscii(str) == str # NonAscii
\* hmac.new(secret, body, sha1).hexdigest()
Hmac(secret, body) == <<"sha1", secret, body>>

\* X-Spark-Signature as the handler receives it: None when the header is
\* missing
SignatureHeaders(secret, body) ==
    {None, Some(EmptyStr), Some(Hmac(secret, body)), Some(Hmac("other", body)),
     Some(NonAscii)}

\* webhooks.py 19-40; hmac.compare_digest raises TypeError on a str with
\* non-ASCII characters
VerifyWebhookSignature(body, signature, secret) ==
    IF secret = "" THEN [exc |-> "none", ok |-> TRUE]
    ELSE IF ~IsAscii(signature) THEN [exc |-> "TypeError", ok |-> FALSE]
    ELSE [exc |-> "none", ok |-> Hmac(secret, body) = signature]

\* what webex_service.get_message gives: None when it raises, else the text
WebMessages == TriageMessages
Fetches == {None} \cup {Some(m) : m \in WebMessages \cup {<<>>}}

FrontResult(status, detail, steps) == [status |-> status, detail |-> detail, trace |-> steps]

\* webhooks.py 58-85: the handler up to the triage call: the status it
\* raises (0: none) and the steps it has taken
WebhookFront(secret, header, body, fetched) ==
    IF secret # "" /\ (header = None \/ header[1] = EmptyStr)
    THEN FrontResult(401, "Missing signature", <<>>)
    ELSE LET v == IF secret # ""
                  THEN VerifyWebhookSignature(body, header[1], secret)
                  ELSE [exc |-> "none", ok |-> TRUE]
         IN  IF v.exc # "none" THEN FrontResult(500, "Internal Server Error", <<>>)
             ELSE IF ~v.ok THEN FrontResult(401, "Invalid signature", <<>>)
             ELSE IF ~ParsePayload(body) THEN FrontResult(400, "Invalid payload", <<"parse">>)
             ELSE IF fetched = None
             THEN FrontResult(502, "Failed to fetch message", <<"parse", "fetch">>)
             ELSE IF fetched[1] = <<>>
             THEN FrontResult(400, "Empty message", <<"parse", "fetch">>)
             ELSE FrontResult(0, "", <<"parse", "fetch", "triage">>)

\* the stage variables of a request that is over
ClearStages ==
    /\ pc' = "idle"
    /\ mode' = "none"
    /\ raw_message' = <<>>
    /\ llm_response' = NoCall
    /\ parsed_alert' = NoAlert
    /\ search_results' = <<>>
    /\ suggestion' = <<>>
    /\ confidence' = ""
    /\ runbook_context' = <<>>
    /\ error' = "none"
    /\ failed_at' = "none"

\* handle_webex_webhook up to the call of process_alert
WebhookReceive ==
    /\ pc = "idle"
    /\ alert_no < MaxAlerts
    /\ \E secret \in Secrets, body \in {ValidBody, BadBody}, fetched \in Fetches :
          \E header \in SignatureHeaders(secret, body) :
             LET r == WebhookFront(secret, header, body, fetched)
             IN  /\ request' = HttpRequest("webhook", secret, header, body, 0)
                 /\ trace' = r.trace
                 /\ IF r.status = 0
                    THEN /\ pc' = "received"
                         /\ mode' = "process_alert"
                         /\ raw_message' = fetched[1]
                         /\ UNCHANGED reply
                    ELSE /\ reply' = Reply(alert_no + 1, r.status, r.detail, 0)
                         /\ UNCHANGED <<pc, mode, raw_message>>
    /\ alert_no' = alert_no + 1
    /\ UNCHANGED <<llm_response, parsed_alert, search_results, suggestion, confidence,
                   runbook_context, error, failed_at, tickets>>
    /\ UNCHANGED <<kbVars, chunkVars, embedVars, session, actions, notifications>>

\* cli suggest without --no-ticket, up to the call of process_alert
CliReceive ==
    /\ pc = "idle"
    /\ alert_no < MaxAlerts
    /\ \E m \in WebMessages : raw_message' = m
    /\ request' = HttpRequest("cli", "", None, <<>>, 0)
    /\ trace' = <<"triage">>
    /\ pc' = "received"
    /\ mode' = "process_alert"
    /\ alert_no' = alert_no + 1
    /\ UNCHANGED <<llm_response, parsed_alert, search_results, suggestion, confidence,
                   runbook_context, error, failed_at, tickets>>
    /\ UNCHANGED <<kbVars, chunkVars, embedVars, reply, session, actions, notifications>>

RetriageEntries == {"retriage", "retriage_web"}

\* retriage_ticket and retriage_ticket_web up to the call of quick_triage
RetriageReceive ==
    /\ pc = "idle"
    /\ alert_no < MaxAlerts
    /\ \E entry \in RetriageEntries, ticket_id \in 1..(Len(tickets) + 1) :
          /\ request' = HttpRequest(entry, "", None, <<>>, ticket_id)
          /\ IF ticket_id \in 1..Len(tickets)
             THEN /\ pc' = "received"
                  /\ mode' = "quick_triage"
                  /\ raw_message' = tickets[ticket_id].raw_message
                  /\ trace' = <<"triage">>
                  /\ UNCHANGED reply
             ELSE /\ reply' = IF entry = "retriage"
                              THEN Reply(alert_no + 1, 404, "Ticket not found", 0)
                              ELSE Reply(alert_no + 1, 302, "/dashboard", 0)
                  /\ trace' = <<>>
                  /\ UNCHANGED <<pc, mode, raw_message>>
    /\ alert_no' = alert_no + 1
    /\ UNCHANGED <<llm_response, parsed_alert, search_results, suggestion, confidence,
                   runbook_context, error, failed_at, tickets>>
    /\ UNCHANGED <<kbVars, chunkVars, embedVars, session, actions, notifications>>

\* classification and generation outcomes tried behind the entry points
WebCalls == {CallFails, Returns(<<Json(GoodObject)>>), Returns(<<Json(BogusObject)>>)}
WebSuggestions == {<<>>, <<"High", "Confidence">>}
WebClassify == ClassifyWith(WebCalls)
WebGenerate == GenerateWith(WebSuggestions)

\* a handler that turns a failed notification into a failed request
ReplyFailingOnNotify(no, ticket, sent) ==
    IF sent THEN Reply(no, 200, "processed", ticket.id)
    ELSE Reply(no, 500, "Notification failed", 0)

\* webhooks.py 110-121: the failure of send_triage_response is printed and
\* the TriageResponse is returned all the same
ReplyAfterNotify(no, ticket, sent) == Reply(no, 200, "processed", ticket.id)

Notification(no, ticket_id, sent) == [no |-> no, ticket_id |-> ticket_id, sent |-> sent]

\* handle_webex_webhook after process_alert returned: send the reply to
\* Webex, answer, and get_db_session closes the session without a commit
WebhookRespond ==
    /\ pc = "handed_off"
    /\ request.entry = "webhook"
    /\ \E sent \in BOOLEAN :
          LET ticket == tickets[Len(tickets)]
          IN  /\ notifications' = Append(notifications, Notification(alert_no, ticket.id, sent))
              /\ reply' = ReplyAfterNotify(alert_no, ticket, sent)
    /\ trace' = Append(trace, "notify")
    /\ session' = <<>>
    /\ ClearStages
    /\ UNCHANGED <<alert_no, tickets, request, actions>>
    /\ UNCHANGED <<kbVars, chunkVars, embedVars>>

\* cli suggest after process_alert returned: the ticket is printed and
\* get_db_context commits the session on the way out
CliDone ==
    /\ pc = "handed_off"
    /\ request.entry = "cli"
    /\ reply' = Reply(alert_no, 0, "printed", tickets[Len(tickets)].id)
    /\ actions' = Commit(actions, session)
    /\ session' = <<>>
    /\ ClearStages
    /\ UNCHANGED <<alert_no, tickets, request, notifications, trace>>
    /\ UNCHANGED <<kbVars, chunkVars, embedVars>>

\* update_suggestion storing the result as one more ticket
UpdateSuggestionAppending(ts, ticket_id, text, sources, confidence_score, now) ==
    IF ticket_id \in 1..Len(ts)
    THEN Append(ts, [ts[ticket_id] EXCEPT !.id = Len(ts) + 1, !.suggestion = text,
                                          !.runbook_sources = sources,
                                          !.confidence_score = confidence_score,
                                          !.updated_at = now])
    ELSE ts

\* TicketRepository.update_suggestion (repository.py 151-170)
UpdateSuggestion(ts, ticket_id, text, sources, confidence_score, now) ==
    IF ticket_id \in 1..Len(ts)
    THEN [ts EXCEPT ![ticket_id] = [@ EXCEPT !.suggestion = text,
                                            !.runbook_sources = sources,
                                            !.confidence_score = confidence_score,
                                            !.updated_at = now]]
    ELSE ts

\* retriage_ticket and retriage_ticket_web after quick_triage returned:
\* update_suggestion commits, or fails in the database
RetriageUpdate ==
    /\ pc = "returned"
    /\ request.entry \in RetriageEntries
    /\ \/ /\ tickets' = UpdateSuggestion(tickets, request.ticket_id, suggestion,
                   [i \in 1..Len(search_results) |-> search_results[i].source_file],
                   confidence, alert_no)
          /\ actions' = Commit(actions, session)
          /\ reply' = IF request.entry = "retriage"
                      THEN Reply(alert_no, 200, "ticket", request.ticket_id)
                      ELSE Reply(alert_no, 302, "/dashboard/ticket", request.ticket_id)
       \/ /\ reply' = Reply(alert_no, 500, "Internal Server Error", 0)
          /\ UNCHANGED <<tickets, actions>>
    /\ session' = <<>>
    /\ ClearStages
    /\ UNCHANGED <<alert_no, request, notifications, trace>>
    /\ UNCHANGED <<kbVars, chunkVars, embedVars>>

\* the triage call raised: the webhook answers 500 (webhooks.py 96-97), the
\* CLI rolls back and exits with code 1 (cli/main.py 165-167), re-triage
\* lets the exception through; the session is closed without a commit
RequestFailed ==
    /\ pc = "failed"
    /\ request.entry # "none"
    /\ reply' = IF request.entry = "webhook" THEN Reply(alert_no, 500, "Triage failed", 0)
                ELSE IF request.entry = "cli" THEN Reply(alert_no, 1, "Error", 0)
                ELSE Reply(alert_no, 500, "Internal Server Error", 0)
    /\ session' = <<>>
    /\ ClearStages
    /\ UNCHANGED <<alert_no, tickets, request, actions, notifications, trace>>
    /\ UNCHANGED <<kbVars, chunkVars, embedVars>>

InitWeb ==
    /\ NoWeb
    /\ NoIndexers
    /\ pc = "idle"
    /\ NoRequest
    /\ chunk_size = MaxChunkSize
    /\ chunk_overlap = MaxOverlap
    /\ files = [f \in FileNames |-> IF f = InfraFile THEN OneSection ELSE EmptyText]
    /\ collection = AddDocuments(<<>>, RowsOf(AllChunks(<<InfraFile, AppFile>>, files)))
    /\ kb_call = NoKbCall
    /\ kb_ops = 0
    /\ NoChunking

NextWeb ==
    \/ WebhookReceive \/ CliReceive \/ RetriageReceive
    \/ WebClassify \/ Retrieve \/ WebGenerate \/ CreateTicket \/ ReturnQuick
    \/ WebhookRespond \/ CliDone \/ RetriageUpdate \/ RequestFailed
SpecWeb == InitWeb /\ [][NextWeb]_vars

\* ======================= PROPERTIES =======================================

(***************************************************************************)
(* Classifier adapter                                                      *)
(***************************************************************************)

\* the JSON value the response decodes to (when it decodes)
Decoded(call) == JsonLoads(StripFences(call.text))
ParsesAsObject(call) ==
    ~call.raised /\ JsonDecodes(StripFences(call.text)) /\ Decoded(call).t = "obj"
\* a field that is present and is no member of the enum
OutsideEnum(v, members) == v.t # "absent" /\ ~(v.t = "str" /\ v.s \in members)

\* the fallback record of the specification for a raw message
IsFallbackRecord(alert, raw) ==
    /\ alert.alert_type = "unknown"
    /\ alert.severity = "medium"
    /\ Len(alert.title) = Min(Len(raw), TITLE_LIMIT)
    /\ \A i \in 1..Len(alert.title) : alert.title[i] = raw[i]
    /\ alert.affected_component = JNull
    /\ alert.source_system = JNull

\* C4: whatever text the classification capability returns, classify_alert
\* returns a ParsedAlert and raises nothing.
C4_NeverAborts ==
    (pc # "received" /\ ~llm_response.raised) => pc = "classified"

\* C5: when the classifier output cannot be parsed as JSON, classify_alert
\* returns alert_type unknown, severity medium, the first 100 characters of
\* the raw message as title, and no affected component or source system.
C5_ParseFailureFallback ==
    (pc # "received" /\ Unparseable(llm_response)) =>
        /\ pc = "classified"
        /\ IsFallbackRecord(parsed_alert, raw_message)
        /\ parsed_alert.raw_message = raw_message

C5_Witness ==
    /\ pc = "classified"
    /\ Unparseable(llm_response)
    /\ llm_response.text # <<>>
    /\ Len(raw_message) > TITLE_LIMIT
    /\ Len(parsed_alert.title) = TITLE_LIMIT

Sentences(text) == SelectSeq(text, LAMBDA l : l.k = "sent")

\* C7: the content of every chunk, header line included, is at most
\* chunk_size characters long, unless the chunk holds exactly one sentence
\* that is itself longer than chunk_size.
C7_ChunkSizeBound ==
    pc = "chunked" =>
        \A i \in 1..Len(chunks) :
            \/ TextLen(chunks[i].content) <= chunk_size
            \/ /\ Len(Sentences(chunks[i].content)) = 1
               /\ Sentences(chunks[i].content)[1].n > chunk_size

\* the sentences of the chunks, in chunk order
RECURSIVE Bodies(_)
Bodies(cs) == IF cs = <<>> THEN <<>> ELSE Sentences(Head(cs).content) \o Bodies(Tail(cs))

\* body with the leading sentences that the previous chunk already holds removed
RECURSIVE DropSeen(_, _)
DropSeen(body, prev) ==
    IF body # <<>> /\ (\E j \in 1..Len(prev) : prev[j] = Head(body))
    THEN DropSeen(Tail(body), prev) ELSE body

RECURSIVE BodiesWithoutOverlap(_, _)
BodiesWithoutOverlap(cs, prev) ==
    IF cs = <<>> THEN <<>>
    ELSE DropSeen(Sentences(Head(cs).content), prev)
         \o BodiesWithoutOverlap(Tail(cs), Sentences(Head(cs).content))

\* C8 (as stated): the chunks' sentences, taken in chunk order, are the
\* sentences of the document: none dropped, reordered or duplicated.
C8_NoContentLoss ==
    pc = "chunked" => Bodies(chunks) = Sentences(document)

\* C8 (amended): no sentence is dropped or reordered, and a sentence is
\* repeated only as overlap: once the leading sentences a chunk repeats from
\* the chunk before it are removed, the chunks' sentences in chunk order are
\* the sentences of the document; with chunk_overlap = 0 nothing is repeated.
C8_NoLossModuloOverlap ==
    pc = "chunked" =>
        /\ BodiesWithoutOverlap(chunks, <<>>) = Sentences(document)
        /\ chunk_overlap = 0 => Bodies(chunks) = Sentences(document)

C8_Witness ==
    /\ pc = "chunked"
    /\ Len(chunks) >= 2
    /\ Len(Bodies(chunks)) > Len(Sentences(document))
    /\ BodiesWithoutOverlap(chunks, <<>>) = Sentences(document)

(***************************************************************************)
(* Orchestrator                                                            *)
(***************************************************************************)

StageEdges ==
    {<<"idle", "received">>, <<"received", "classified">>, <<"received", "failed">>,
     <<"classified", "retrieved">>, <<"classified", "failed">>,
     <<"retrieved", "suggested">>, <<"retrieved", "failed">>,
     <<"suggested", "handed_off">>, <<"suggested", "returned">>,
     <<"suggested", "failed">>,
     <<"handed_off", "idle">>, <<"returned", "idle">>, <<"failed", "idle">>}

TicketsOf(n) == {i \in 1..Len(tickets) : tickets[i].webex_message_id = n}

C1_TicketAfterHandOff ==
    /\ \A n \in 0..MaxAlerts + 1 : Cardinality(TicketsOf(n)) <= 1
    /\ TicketsOf(alert_no) # {} => pc \in {"handed_off", "idle"}

C1_Step ==
    /\ pc' # pc => <<pc, pc'>> \in StageEdges
    /\ tickets' # tickets =>
          /\ pc = "suggested" /\ pc' = "handed_off"
          /\ mode = "process_alert"
          /\ error = "none"
          /\ Len(tickets') = Len(tickets) + 1
          /\ SubSeq(tickets', 1, Len(tickets)) = tickets
          /\ tickets'[Len(tickets')].webex_message_id = alert_no

\* C1: the stages of process_alert run in the order classify, retrieve,
\* generate, hand-off, none repeated or skipped, and the ticket of an alert
\* is created at most once, and only from the state reached after
\* classification, retrieval and generation have all succeeded.
C1_StageOrder == []C1_TicketAfterHandOff /\ [][C1_Step]_vars

C1_Witness ==
    /\ pc = "handed_off"
    /\ Len(tickets) = 2
    /\ tickets[2].webex_message_id = alert_no
    /\ tickets[2].alert_type = "infrastructure"

ExternalServiceErrors == {"EmbeddingError", "IndexBackendError", "GenerationError"}

\* C2: when the embedding capability, the index backend or the generation
\* capability fails, the request ends as a failure and no ticket exists for
\* that alert.
C2_FailurePropagates ==
    /\ error \in ExternalServiceErrors => pc = "failed"
    /\ pc = "failed" => TicketsOf(alert_no) = {}

C2_Witness ==
    /\ pc = "failed"
    /\ error = "EmbeddingError"
    /\ mode = "process_alert"
    /\ Len(tickets) = 1
    /\ alert_no = 2

Unusable(call) ==
    /\ ~call.raised
    /\ JsonDecodes(StripFences(call.text))
    /\ \/ Decoded(call).t # "obj"
       \/ Decoded(call).f.title.t \notin {"absent", "str"}
       \/ Decoded(call).f.source_system.t \notin {"absent", "null", "str"}
       \/ Decoded(call).f.affected_component.t \notin {"absent", "null", "str"}

BatchIds(rows) == {rows[i].id : i \in 1..Len(rows)}
Accepted(c) == c.op = "add_documents" /\ c.returned = 0

C9_OneEntryPerId ==
    /\ \A i, j \in 1..Len(collection) :
          collection[i].id = collection[j].id => i = j
    /\ Accepted(kb_call) =>
          \A k \in 1..Len(kb_call.rows) :
              \E i \in 1..Len(collection) : collection[i] = kb_call.rows[k]

C9_Step ==
    Accepted(kb_call') =>
        /\ Len(collection') =
              Len(collection) + Cardinality(BatchIds(kb_call'.rows) \ Ids(collection))
        /\ \A i \in 1..Len(collection) :
              /\ collection'[i].id = collection[i].id
              /\ collection[i].id \notin BatchIds(kb_call'.rows) =>
                    collection'[i] = collection[i]

\* C9: the index holds at most one entry per id; an upsert of an id that is
\* present replaces that record in place and leaves the number of entries
\* unchanged (the count grows by the number of new ids only), so a tuple
\* upserted twice is held once.
C9_UpsertIdempotent == []C9_OneEntryPerId /\ [][C9_Step]_vars

C9_Witness ==
    /\ Len(collection) = 2
    /\ Accepted(kb_call)
    /\ kb_call.rows = <<collection[1]>>

PassDone(c) == c.op = "index_all" /\ c.returned >= 0

\* a stored row and a chunk of the files as they are now stand at the same
\* place (file, chunk index): their ids agree exactly when their contents do
C10_IdTracksContent ==
    \A i \in 1..Len(collection) : \A f \in FileNames :
        LET cs == ChunkDocument(files[f], f)
        IN  \A k \in 1..Len(cs) :
                (cs[k].source_file = collection[i].id[1]
                 /\ cs[k].chunk_index = collection[i].id[2])
                => ((cs[k].content = collection[i].document)
                    <=> (GenerateId(cs[k]) = collection[i].id))

\* a pass without force that follows a pass, the files untouched in between
C10_Step ==
    (PassDone(kb_call) /\ PassDone(kb_call') /\ ~kb_call'.force) =>
        /\ BatchIds(kb_call'.rows) = BatchIds(kb_call.rows)
        /\ Ids(collection') = Ids(collection)
        /\ Len(collection') = Len(collection)

\* C10: a second indexing pass without force over unchanged files produces
\* the same chunk ids and leaves the index with the same set and number of
\* entries; a chunk whose content changed has a different id.
C10_StableIds == []C10_IdTracksContent /\ [][C10_Step]_vars

C10_Witness ==
    /\ PassDone(kb_call)
    /\ ~kb_call.force
    /\ kb_call.returned > 0
    /\ \E i, j \in 1..Len(collection) :
          /\ collection[i].id[1] = collection[j].id[1]
          /\ collection[i].id[2] = collection[j].id[2]
          /\ collection[i].id # collection[j].id

(***************************************************************************)
(* Search                                                                  *)
(***************************************************************************)

Searched == pc = "searched" /\ kb_call.exc = "none"
ResultTypes == {kb_call.results[i].metadata.type : i \in 1..Len(kb_call.results)}

\* C11: when a typeFilter value is supplied, every returned SearchResult has
\* metadata.type equal to that value.
C11_FilterCorrect ==
    (Searched /\ kb_call.filter_type # None) =>
        ResultTypes \subseteq {kb_call.filter_type[1]}


\* C12: search returns at most k results, each scored at least minScore, in
\* descending score order; in an unfiltered query with k >= 1 and
\* minScore <= 1 a stored entry whose vector is the query vector comes first.
C12_ThresholdAndRanking ==
    Searched =>
        LET rs == kb_call.results
        IN  /\ Len(rs) <= kb_call.n_results
            /\ \A i \in 1..Len(rs) : rs[i].score >= kb_call.min_score
            /\ \A i \in 1..Len(rs) : \A j \in 1..Len(rs) :
                   i < j => rs[i].score >= rs[j].score
            /\ (/\ kb_call.filter_type = None
                /\ kb_call.n_results >= 1
                /\ kb_call.min_score <= 100
                /\ \E i \in 1..Len(collection) :
                      collection[i].embedding = kb_call.query_embedding)
               => /\ rs # <<>>
                  /\ rs[1].score = 100
                  /\ \E i \in 1..Len(collection) :
                        /\ collection[i].embedding = kb_call.query_embedding
                        /\ rs[1] = SearchResult(collection[i], 100)

\* the threshold left one of two candidates out and the exact match leads
C12_Witness ==
    /\ Searched
    /\ Len(collection) = 2
    /\ kb_call.filter_type = None
    /\ kb_call.n_results = SEARCH_RESULTS_LIMIT
    /\ kb_call.min_score = 90
    /\ Len(kb_call.results) = 1
    /\ kb_call.results[1].score = 100
    /\ collection[2].embedding = kb_call.query_embedding

\* C16: a typeFilter that is no known document type is rejected with a
\* ValidationError before the embedding capability or the index backend is
\* invoked.
C16_FilterValidated ==
    (/\ pc = "searched"
     /\ kb_call.filter_type # None
     /\ kb_call.filter_type[1] \notin DocTypes)
    => /\ kb_call.exc = "ValidationError"
       /\ ~kb_call.encoded
       /\ ~kb_call.queried

\* C20: every returned SearchResult has a score in [0, 1].
C20_ScoreInUnitRange ==
    Searched =>
        \A i \in 1..Len(kb_call.results) :
            kb_call.results[i].score \in 0..100

(***************************************************************************)
(* Retrieval and generation in the pipeline                                *)
(***************************************************************************)

AfterRetrieval == pc \in {"retrieved", "suggested", "handed_off", "returned"}
KnownTypes == AlertTypes \ {"unknown"}

\* C13: search_runbooks queries the index with typeFilter equal to the
\* alert's type when the type is infrastructure, application or monitoring
\* and with no filter when it is unknown; an alert of a known type only
\* receives results of that type.
C13_FilterDerivation ==
    AfterRetrieval =>
        /\ kb_call.op = "search"
        /\ parsed_alert.alert_type \in KnownTypes =>
               /\ kb_call.filter_type = Some(parsed_alert.alert_type)
               /\ \A i \in 1..Len(search_results) :
                      search_results[i].metadata.type = parsed_alert.alert_type
        /\ parsed_alert.alert_type = "unknown" => kb_call.filter_type = None

\* an infrastructure alert against one infrastructure and one application
\* chunk got the infrastructure chunk only
C13_Witness ==
    /\ pc = "retrieved"
    /\ parsed_alert.alert_type = "infrastructure"
    /\ {collection[i].metadata.type : i \in 1..Len(collection)}
           = {"infrastructure", "application"}
    /\ Len(search_results) = 1
    /\ search_results[1].metadata.type = "infrastructure"

\* C14: when retrieval returns no result the generation capability is still
\* called, with the fixed sentinel as context block, and the request goes on
\* to a suggestion whose runbook sources are empty; it fails only when the
\* generation capability itself fails.
C14_EmptyRetrievalNoError ==
    /\ (pc \in {"suggested", "handed_off", "returned"} /\ search_results = <<>>) =>
          /\ runbook_context = NoRunbookContext
          /\ error = "none"
          /\ confidence \in {"High", "Medium", "Low"}
    /\ (pc = "failed" /\ failed_at = "generate") =>
          /\ error = "GenerationError"
          /\ search_results = <<>> => runbook_context = NoRunbookContext
    /\ (pc = "handed_off" /\ search_results = <<>>) =>
          tickets[Len(tickets)].runbook_sources = <<>>
    /\ (AfterRetrieval /\ search_results = <<>>) => (error = "none" /\ kb_call.exc = "none")

C14_Witness ==
    /\ pc = "handed_off"
    /\ search_results = <<>>
    /\ runbook_context = NoRunbookContext
    /\ suggestion = <<>>
    /\ tickets[Len(tickets)].runbook_sources = <<>>
    /\ tickets[Len(tickets)].confidence_score = "Medium"

C15_Step == mode = "quick_triage" => tickets' = tickets

\* C15: no step of a quick_triage request, successful or failing, adds,
\* removes or changes a row of the tickets table.
C15_QuickTriageStoresNothing == [][C15_Step]_vars

\* a quick triage has returned next to the ticket of an earlier alert
C15_Witness ==
    /\ pc = "returned"
    /\ mode = "quick_triage"
    /\ alert_no = 2
    /\ Len(tickets) = 1
    /\ tickets[1].webex_message_id = 1

\* phrase: first directly followed by second
HasPhrase(text, first, second) ==
    \E i \in 1..(Len(text) - 1) : text[i] = first /\ text[i + 1] = second

\* C19 (as stated): the confidence is Medium whenever the text contains
\* neither the phrase "High Confidence" nor the phrase "Low Confidence", and
\* it is always one of High, Medium, Low.
C19_MediumWithoutPhrase ==
    pc = "suggested" =>
        /\ confidence \in {"High", "Medium", "Low"}
        /\ (~HasPhrase(suggestion, "High", "Confidence")
            /\ ~HasPhrase(suggestion, "Low", "Confidence")) => confidence = "Medium"

\* C19 (amended): the confidence is one of High, Medium, Low; it is Medium
\* whenever the text lacks "Confidence" or lacks both "High" and "Low"; it is
\* High only when "High" and "Confidence" both occur somewhere in the text
\* (adjacent or not, also inside a longer word), Low only when "Low" and
\* "Confidence" occur and "High" does not; the phrase "High Confidence" gives
\* High, and the phrase "Low Confidence" gives Low unless "High" occurs too.
C19_MediumWithoutMarkers ==
    pc = "suggested" =>
        /\ confidence \in {"High", "Medium", "Low"}
        /\ ~Mentions(suggestion, "Confidence") => confidence = "Medium"
        /\ (~Mentions(suggestion, "High") /\ ~Mentions(suggestion, "Low"))
              => confidence = "Medium"
        /\ confidence = "High" =>
              (Mentions(suggestion, "High") /\ Mentions(suggestion, "Confidence"))
        /\ confidence = "Low" =>
              /\ Mentions(suggestion, "Low") /\ Mentions(suggestion, "Confidence")
              /\ ~Mentions(suggestion, "High")
        /\ HasPhrase(suggestion, "High", "Confidence") => confidence = "High"
        /\ (HasPhrase(suggestion, "Low", "Confidence") /\ ~Mentions(suggestion, "High"))
              => confidence = "Low"

\* nothing was retrieved and the text names no confidence: Medium
C19_Witness ==
    /\ pc = "suggested"
    /\ search_results = <<>>
    /\ suggestion = <<"Medium", "Low">>
    /\ confidence = "Medium"

(***************************************************************************)
(* Clearing the collection                                                 *)
(***************************************************************************)

\* C18: whenever clear returns normally the collection holds no entry (a
\* storage failure is reported, not swallowed).
C18_ClearEmpties ==
    (kb_call.op = "clear" /\ kb_call.returned = 0) => collection = <<>>

(***************************************************************************)
(* Embedding capability                                                    *)
(***************************************************************************)

\* C17: the embedding model constructor runs at most once in the process,
\* whatever the interleaving of first-use callers and however many indexer
\* instances are created.
C17_ConstructedOnce == constructions <= 1

(***************************************************************************)
(* Chunker: sections, parts, indices, overlap                              *)
(***************************************************************************)

\* positions of the header lines of the document; 0 stands for the text
\* before the first header
HeaderPositions == {i \in 1..Len(document) : document[i].k = "header"}
SectionEnd(p) ==
    IF \E q \in HeaderPositions : q > p
    THEN (CHOOSE q \in HeaderPositions :
             q > p /\ \A r \in HeaderPositions : r > p => q <= r) - 1
    ELSE Len(document)
\* the lines under the header at position p, without leading and trailing
\* blank lines
SectionBody(p) ==
    LET ls == SubSeq(document, p + 1, SectionEnd(p))
        ps == {i \in 1..Len(ls) : ls[i].k = "sent"}
    IN  IF ps = {} THEN <<>>
        ELSE SubSeq(ls, CHOOSE i \in ps : \A j \in ps : i <= j,
                        CHOOSE i \in ps : \A j \in ps : j <= i)
ChunksOf(p) == SelectSeq(chunks, LAMBDA c : c.section_header = p)
\* the header line a chunk's content starts with (NoHeader when it has none)
RenderedHeader(c) ==
    IF c.content # <<>> /\ c.content[1].k = "header" THEN c.content[1] ELSE NoHeader

\* C21: with chunk_overlap > 0, two consecutive chunks split by sentences
\* from one oversized paragraph share sentences: a non-empty suffix of the
\* earlier chunk is a prefix of the later one.
C21_OverlapBetweenParts ==
    (pc = "chunked" /\ chunk_overlap > 0) =>
        \A p \in HeaderPositions \cup {0} :
            (\A l \in 1..Len(SectionBody(p)) : SectionBody(p)[l].k = "sent") =>
                LET cs == ChunksOf(p)
                IN  \A i \in 1..(Len(cs) - 1) :
                        LET a == Sentences(cs[i].content)
                            b == Sentences(cs[i + 1].content)
                        IN  \E k \in 1..Min(Len(a), Len(b)) :
                                SubSeq(a, Len(a) - k + 1, Len(a)) = SubSeq(b, 1, k)

\* C22: the i-th chunk (zero-based) of chunk_document has chunk_index i.
C22_RunningIndex ==
    pc = "chunked" => \A i \in 1..Len(chunks) : chunks[i].chunk_index = i - 1

\* an introduction that fits followed by a section split in two parts
C22_Witness ==
    /\ pc = "chunked"
    /\ Len(chunks) = 3
    /\ chunks[1].section_header = 0
    /\ chunks[2].section_header > 0
    /\ chunks[2].metadata.part = 1
    /\ chunks[3].metadata.part = 2
    /\ chunks[3].chunk_index = 2

\* C23: a section with no content yields no chunk; a section with content
\* that fits chunk_size yields exactly one chunk, with the section's header
\* (Introduction before the first header) and its content; chunks come in
\* document order, so n fitting sections give n chunks indexed 0..n-1.
C23_OneChunkPerFittingSection ==
    pc = "chunked" =>
        /\ \A p \in HeaderPositions \cup {0} :
              /\ SectionBody(p) = <<>> => ChunksOf(p) = <<>>
              /\ (SectionBody(p) # <<>> /\ TextLen(SectionBody(p)) <= chunk_size) =>
                    /\ Len(ChunksOf(p)) = 1
                    /\ Sentences(ChunksOf(p)[1].content) = Sentences(SectionBody(p))
                    /\ ChunksOf(p)[1].metadata.section = p
        /\ \A i, j \in 1..Len(chunks) :
              i < j => chunks[i].section_header <= chunks[j].section_header
        /\ (\A p \in HeaderPositions \cup {0} : TextLen(SectionBody(p)) <= chunk_size) =>
              /\ Len(chunks) = Cardinality({p \in HeaderPositions \cup {0} :
                                               SectionBody(p) # <<>>})
              /\ \A i \in 1..Len(chunks) : chunks[i].chunk_index = i - 1

\* an introduction and a section that fit, with an empty section between
\* them: two chunks, indices 0 and 1
C23_Witness ==
    /\ pc = "chunked"
    /\ HeaderPositions = {2, 3}
    /\ SectionBody(2) = <<>>
    /\ Len(chunks) = 2
    /\ chunks[1].section_header = 0
    /\ chunks[2].section_header = 3
    /\ chunks[2].chunk_index = 1

\* C24: the k-th of the n > 1 chunks of a split section has the header
\* suffix (Part k) and metadata part k; the only chunk of a section has no
\* suffix and no part field in its metadata.
C24_PartLabels ==
    pc = "chunked" =>
        \A p \in HeaderPositions \cup {0} :
            LET cs == ChunksOf(p)
            IN  /\ Len(cs) > 1 =>
                      \A k \in 1..Len(cs) :
                          RenderedHeader(cs[k]).part = k /\ cs[k].metadata.part = k
                /\ Len(cs) = 1 =>
                      RenderedHeader(cs[1]).part = 0 /\ cs[1].metadata.part = 0

(***************************************************************************)
(* Indexing passes and what they leave in the index                        *)
(***************************************************************************)

Holds(coll, row) == \E j \in 1..Len(coll) : coll[j] = row

\* C28: a pass without force (index_all_runbooks(force_reindex=False) or
\* index_single_file) removes no entry: every id, and every row, held before
\* the pass is held after it.
C28_Step ==
    (kb_ops' = kb_ops + 1
     /\ (kb_call'.op = "index_single" \/ (kb_call'.op = "index_all" /\ ~kb_call'.force))) =>
        /\ Ids(collection) \subseteq Ids(collection')
        /\ \A i \in 1..Len(collection) : Holds(collection', collection[i])
C28_NothingRemoved == [][C28_Step]_vars

\* index_single_file has added the entry of the new content of a chunk, and
\* the entry of its old content is still held
C28_Witness ==
    /\ kb_call.op = "index_single"
    /\ kb_call.returned > 0
    /\ Len(collection) > Len(kb_call.rows)
    /\ \E i, j \in 1..Len(collection) :
          /\ Holds(kb_call.rows, collection[i])
          /\ ~Holds(kb_call.rows, collection[j])
          /\ collection[i].id[1] = collection[j].id[1]
          /\ collection[i].id[2] = collection[j].id[2]

\* C29: when index_all_runbooks(force_reindex=True) returns, the index holds
\* exactly the rows of the chunks computed in that pass, and the returned
\* count is the number of entries in the index (0: the index is empty).
C29_ForcedReplaces ==
    (kb_call.op = "index_all" /\ kb_call.force /\ kb_call.returned >= 0) =>
        /\ \A i \in 1..Len(collection) : Holds(kb_call.rows, collection[i])
        /\ \A i \in 1..Len(kb_call.rows) : Holds(collection, kb_call.rows[i])
        /\ kb_call.returned = Len(collection)

(***************************************************************************)
(* Entry points: audit trail, notification, re-triage, signature gate      *)
(***************************************************************************)

HasTicket(ts, id) == \E i \in 1..Len(ts) : ts[i].id = id
NotifiedIn(no) == \E i \in 1..Len(notifications) : notifications[i].no = no
CreatedIn(no) == \E i \in 1..Len(tickets) : tickets[i].webex_message_id = no

\* C25: once the session of a request is closed, the committed
\* ticket_actions table holds a 'created' row for every ticket that
\* TicketRepository.create stored.
C25_CreatedActionCommitted ==
    pc = "idle" =>
        \A i \in 1..Len(tickets) :
            \E j \in 1..Len(actions) : actions[j] = ActionRow(tickets[i].id, "created")

\* a webhook request answered after send_triage_response was attempted
WebhookAnswered ==
    /\ pc = "idle"
    /\ request.entry = "webhook"
    /\ NotifiedIn(alert_no)

C26_State ==
    /\ \A i \in 1..Len(notifications) : HasTicket(tickets, notifications[i].ticket_id)
    /\ WebhookAnswered =>
          LET n == notifications[Len(notifications)]
          IN  /\ n.no = alert_no
              /\ HasTicket(tickets, n.ticket_id)
              /\ reply = Reply(alert_no, 200, "processed", n.ticket_id)
    /\ (request.entry = "webhook" /\ pc = "failed") => ~NotifiedIn(alert_no)
    /\ (request.entry = "webhook" /\ pc = "idle" /\ reply.no = alert_no
        /\ reply.detail = "Triage failed")
          => ~NotifiedIn(alert_no) /\ ~CreatedIn(alert_no)

C26_Step ==
    /\ notifications' # notifications =>
          /\ Len(notifications') = Len(notifications) + 1
          /\ tickets' = tickets
          /\ HasTicket(tickets, notifications'[Len(notifications')].ticket_id)
          /\ tickets[Len(tickets)].webex_message_id = notifications'[Len(notifications')].no
    /\ (pc = "failed" /\ request.entry = "webhook") =>
          /\ notifications' = notifications
          /\ ~NotifiedIn(alert_no)
          /\ ~CreatedIn(alert_no)

\* C26: the webhook handler attempts the Webex notification only after the
\* ticket is committed; a failed notification leaves the ticket stored and
\* the answer is still 'processed' with that ticket's id; when triage fails
\* no notification is sent.
C26_HandOffBeforeNotification == []C26_State /\ [][C26_Step]_vars

\* the notification of the request failed and the answer is 'processed'
C26_Witness ==
    /\ WebhookAnswered
    /\ ~notifications[Len(notifications)].sent
    /\ reply.status = 200
    /\ HasTicket(tickets, reply.ticket_id)

\* the fields of a ticket that re-triage leaves alone
Frame(t) ==
    [t EXCEPT !.suggestion = <<>>, !.runbook_sources = <<>>, !.confidence_score = "",
              !.updated_at = 0]

C27_Step ==
    request'.entry \in RetriageEntries =>
        /\ Len(tickets') = Len(tickets)
        /\ \A i \in 1..Len(tickets) :
              /\ i # request'.ticket_id => tickets'[i] = tickets[i]
              /\ Frame(tickets'[i]) = Frame(tickets[i])
        /\ tickets' # tickets =>
              /\ pc = "returned"
              /\ reply'.no = alert_no
              /\ reply'.status \in {200, 302}
              /\ reply'.ticket_id = request.ticket_id
        /\ (pc = "failed" \/ ~HasTicket(tickets, request'.ticket_id)) => tickets' = tickets

\* C27: re-triage of an existing ticket changes only its suggestion,
\* runbook_sources, confidence_score and updated_at; every other field and
\* every other ticket, and the number of tickets, stay as they were; when
\* the ticket does not exist or quick triage fails no ticket is modified.
C27_OnlySuggestionRewritten == [][C27_Step]_vars

\* a ticket created by an earlier request has been re-triaged
C27_Witness ==
    /\ pc = "idle"
    /\ request.entry \in RetriageEntries
    /\ reply.no = alert_no
    /\ reply.ticket_id = request.ticket_id
    /\ HasTicket(tickets, request.ticket_id)
    /\ tickets[request.ticket_id].updated_at = alert_no
    /\ tickets[request.ticket_id].webex_message_id < alert_no
    /\ tickets[request.ticket_id].suggestion # <<>>

\* a webhook request whose signature header is missing or is not the
\* HMAC-SHA1 of the body, while a secret is configured
BadSignature ==
    /\ request.entry = "webhook"
    /\ request.secret # ""
    /\ \/ request.signature = None
       \/ request.signature[1] # Hmac(request.secret, request.body)

\* C30: with a webhook secret configured, a request whose signature header
\* is missing or wrong is answered 401 before the payload is parsed; no
\* message fetch, triage, ticket creation or notification happens for it.
C30_SignatureGate ==
    BadSignature =>
        /\ pc = "idle"
        /\ reply.no = alert_no
        /\ reply.status = 401
        /\ trace = <<>>
        /\ ~CreatedIn(alert_no)
        /\ ~NotifiedIn(alert_no)

====
